---- MODULE Spec2Model ----
(***************************************************************************)
(* Benchnet server data core (srv/data.go): the catalogs of nodes and      *)
(* jobs, the running links between them, the diff log, the placement       *)
(* scheduler and the data loop that serialises operations and hands        *)
(* snapshots of the diff log to asynchronous commit tasks.                 *)
(*                                                                         *)
(* Go slices are modelled by their visible part (a sequence); where the    *)
(* code keeps reading a backing array that it shifts in place (a range     *)
(* loop over a slice that the loop body shortens), the backing array is    *)
(* carried along explicitly.  Indices are 0-based as in the source.        *)
(***************************************************************************)
EXTENDS Integers, Sequences, FiniteSets, TLC

\* ------------------------------------------------------------------ bounds
MaxNodeId  == 3     \* node ids are 1..MaxNodeId
MaxJobId   == 2     \* job ids are 0..MaxJobId
MaxJobCapa == 2     \* a job's capa is 1..MaxJobCapa
MaxWant    == 3     \* a job's want (cap(j.nodes)) is 1 or MaxWant
MaxOps     == 2     \* management commands accepted after start-up (Spec)
MaxLoopOps == 3     \* management commands accepted after start-up (SpecLoop)
MaxSess    == 1     \* node sessions completed after start-up (SpecLoop)
TimeWrap   == 8     \* clock values are 0..TimeWrap-1 hours; uint64 arithmetic wraps here
MaxChal    == 2     \* a challenge is one of 1..MaxChal
MaxSrvClock == 7    \* the server's clock when it stamps lastSeen in a session
MinPeriod  == 3     \* a timer's period is MinPeriod..MaxPeriod (half milliseconds)
MaxPeriod  == 4
MaxOffset  == 3     \* a timer's offset is 0..MaxOffset
MaxNow     == 7     \* sched.New is called at a time in MaxOffset..MaxNow
MaxClock   == 14    \* the timer is followed until this time
MaxRun     == 5     \* a run of f takes 1 or MaxRun
MaxDesc    == 3     \* a job description is one of 1..MaxDesc; the last has an invalid check
MaxMerges  == 2     \* mergeJobs calls followed (SpecMerge)
MaxCallers == 2     \* goroutines that call the database gateway (SpecDb)
MaxCalls   == 5     \* front-end calls made by all callers together (SpecDb)
MaxConns   == 2     \* connection handlers that run at once (SpecMgmt)
MaxCmds    == 4     \* commands and sessions accepted by the listeners (SpecMgmt)
MaxShutMerges == 1  \* mergeJobs calls of the node before it exits (SpecShut)
MaxCoalOps == 4     \* management commands accepted after start-up (SpecCoal)
MaxDurOps  == 3     \* operations of the data core between start-up and the last commit (SpecDur)
MaxSeenClock == 3   \* the server's clock runs from 1 to MaxSeenClock (SpecSeen)
MaxSeenSess == 3    \* sessions started (SpecSeen)
MaxResClock == 5    \* the node's clock runs from 0 to MaxResClock hours (SpecRes)
MaxKeyNodes == 2    \* node ids of the nodes table are 1..MaxKeyNodes (SpecKey)
MaxKeyOps  == 3     \* management commands and restarts followed (SpecKey)
ShortKey   == 16    \* the length of a stored key that is not KeySize bytes long

NodeIds  == 1..MaxNodeId
JobIds   == 0..MaxJobId
JobCapas == 1..MaxJobCapa
Wants    == {1, MaxWant}
\* every node has the same capacity: room for MaxWant jobs of capa 1, not
\* for two jobs of capa MaxJobCapa and one more
NodeCapa == MaxWant

\* ------------------------------------------------------- program constants
opAddLink == 0
opRmLink  == 1
opAddNode == 2
opRmNode  == 3
opAddJob  == 4
opRmJob   == 5
chanCap   == 2      \* buffer of schedReqChan, commitReqChan and commitDone
TwoHours  == 2      \* uint64(time.Hour)*2, in hours
Millisecond == 2    \* time.Millisecond, in half milliseconds
\* operations of the database gateway (stdb)
opClose    == 0
opExec     == 1
opQuery    == 2
opQueryRow == 3
opScan     == 4
opNext     == 5
opBegin    == 6
opCommit   == 7
opRollback == 8
\* lib/conn: KeySize = sha256.Size
KeySize == 32

VARIABLES
    nodes,      \* nlist: sequence of node records, sorted by id
    jobs,       \* jlist: sequence of job records, sorted by Id
    diffBuf,    \* backing array of the diff log diffs
    diffLen,    \* len(diffs)
    resBuf,     \* backing array of results
    resLen,     \* len(results)
    panicked,   \* an operation has panicked in the data loop
    pc,         \* dataLoop: "run" (select loop), "wait" (deferred function,
                \* before the final commit), "final" (final commit started),
                \* "closed" (DB closed), "done" (acknowledged on done)
    committing, \* dataLoop's flag
    schedReq,   \* len(schedReqChan)
    commitReq,  \* len(commitReqChan)
    commitDone, \* contents of the channel commitDone
    tasks,      \* the dbCommit tasks running, each with its snapshots
    sess,       \* the node session that has completed its protocol steps
    nops,       \* management commands accepted so far
    nsess,      \* sessions completed so far; also the clock of lastSeen
    last,       \* history: the last step taken, and len(diffs) before it
    linkBase,   \* history: the links in memory at the last commit snapshot
    missed      \* history: a commit request was dropped while a commit task
                \* ran and the log was not empty, and no commit started since

\* the other components, each with its own specification
VARIABLES
    sr,         \* a schedule() run followed statement by statement (SpecSched)
    srv,        \* SpecSess: the server's end of a session (handle and its steps)
    nod,        \* SpecSess: the node's end of the session (talk and its steps)
    wire,       \* SpecSess: the frames in flight in both directions
    ndb,        \* SpecSess: the node's tables (results by start time, job ids)
    sigs,       \* SpecSess, history: the signatures made and checked
    tm,         \* SpecTimer: the goroutine Sched.thread and its ticker
    clk,        \* SpecTimer: the time
    stop,       \* SpecTimer: the call of Stop
    fired,      \* SpecTimer, history: the times at which f was started
    njobs,      \* SpecMerge: the node's job list jobs
    ntasks,     \* SpecMerge: the scheduler tasks that run, by the job they serve
    mlast,      \* SpecMerge, history: the last mergeJobs call
    gw,         \* SpecDb: the goroutine DB.thread of the database gateway
    cl,         \* SpecDb: the callers of the gateway, each in a front-end function
    hd,         \* SpecDb: the Rows, Row and Tx objects made so far
    mg,         \* SpecMgmt: main and the connection handlers of the server
    sh,         \* SpecShut: the node's main, its netLoop and its job tasks
    ky,         \* SpecKey: the nodes table, the keys in the catalog, a session
    pdb,        \* SpecDur: the ids in the tables nodes and jobs, the rows of running
    ov,         \* SpecSeen: the server's clock and two sessions of one node
    nr          \* SpecRes: the node's checks and results table, and its sessions

dataVars == <<nodes, jobs, diffBuf, diffLen, resBuf, resLen, panicked>>
loopVars == <<pc, committing, schedReq, commitReq, commitDone, tasks, sess, nsess, missed>>
srvVars == <<nodes, jobs, diffBuf, diffLen, resBuf, resLen, panicked, pc, committing,
             schedReq, commitReq, commitDone, tasks, sess, nops, nsess, last,
             linkBase, missed>>
schedX == <<sr>>
sessX == <<srv, nod, wire, ndb, sigs>>
timerX == <<tm, clk, stop, fired>>
mergeX == <<njobs, ntasks, mlast>>
dbX == <<gw, cl, hd>>
otherX == <<dbX, mg, sh, ky, pdb, ov, nr>>
ext == <<schedX, sessX, timerX, mergeX, otherX>>
vars == <<srvVars, ext>>

\* a component that a specification leaves out stays off
Off == [pc |-> "off"]
\* every component but the named one is off
ExtOffExcept(name) ==
    /\ name # "sr" => sr = Off
    /\ name # "sess" => (srv = Off /\ nod = Off /\ wire = Off /\ ndb = Off /\ sigs = Off)
    /\ name # "timer" => (tm = Off /\ clk = 0 /\ stop = Off /\ fired = <<>>)
    /\ name # "merge" => (njobs = <<>> /\ ntasks = {} /\ mlast = Off)
    /\ name # "db" => (gw = Off /\ cl = <<>> /\ hd = <<>>)
    /\ name # "mgmt" => mg = Off
    /\ name # "shut" => sh = Off
    /\ name # "key" => ky = Off
    /\ name # "dur" => pdb = Off
    /\ name # "seen" => ov = Off
    /\ name # "res" => nr = Off

\* ------------------------------------------------------------------ slices
\* s[i:] and s[:i] deleted/inserted forms used by the source (0-based i)
RemoveAt(s, i) == SubSeq(s, 1, i) \o SubSeq(s, i + 2, Len(s))
InsertAt(s, i, e) == SubSeq(s, 1, i) \o <<e>> \o SubSeq(s, i + 1, Len(s))

\* the backing array after the slice (its prefix) became view by in-place
\* writes: what lies beyond the new length keeps its old contents
WriteBack(arr, view) == view \o SubSeq(arr, Len(view) + 1, Len(arr))

\* sort.Search(n, f) with f(h) == ids[h] >= id: binary search
RECURSIVE SearchFrom(_, _, _, _)
SearchFrom(ids, id, i, j) ==
    IF i < j
    THEN LET h == i + ((j - i) \div 2)
         IN  IF ~(ids[h + 1] >= id)
             THEN SearchFrom(ids, id, h + 1, j)
             ELSE SearchFrom(ids, id, i, h)
    ELSE i

\* nlist.index, jlist.index, jobList.index
nlistIndex(l, id) == SearchFrom([k \in 1..Len(l) |-> l[k].id], id, 0, Len(l))
jlistIndex(l, id) == SearchFrom([k \in 1..Len(l) |-> l[k].Id], id, 0, Len(l))
jobListIndex(l, id) == SearchFrom(l, id, 0, Len(l))

\* nlist.find, jlist.find: the 1-based position of the record, 0 for nil
nlistFind(l, id) ==
    LET i == nlistIndex(l, id)
    IN  IF i = Len(l) \/ l[i + 1].id # id THEN 0 ELSE i + 1
jlistFind(l, id) ==
    LET i == jlistIndex(l, id)
    IN  IF i = Len(l) \/ l[i + 1].Id # id THEN 0 ELSE i + 1

\* job.in(jobList)
jobIn(jid, l) ==
    LET i == jobListIndex(l, jid)
    IN  i < Len(l) /\ l[i + 1] = jid

\* job.runnable, node.canRun
runnable(j) == Len(j.nodes) < j.want
\* (a canRun that forgets the node's load)
canRunAnyLoad(n, j) == ~jobIn(j.Id, n.jobs)
canRun(n, j) == j.capa <= n.capa - n.used /\ ~jobIn(j.Id, n.jobs)

\* ------------------------------------------------------------- the store
\* The operations work on a record st of the loop's data:
\*   nodes, jobs, dbuf (backing array of diffs), dlen (len(diffs)),
\*   ok (FALSE once the operation has panicked; nothing runs after that)
Diffs(st) == SubSeq(st.dbuf, 1, st.dlen)
SetDiffs(st, view) ==
    [st EXCEPT !.dbuf = WriteBack(st.dbuf, view), !.dlen = Len(view)]
Panic(st) == [st EXCEPT !.ok = FALSE]

\* dataDiff values; nil pointers are <<>>, a pointer to a copy is <<copy>>
linkDiff(op, jid, nid) == [op |-> op, jobId |-> jid, nodeId |-> nid, j |-> <<>>, n |-> <<>>]
nodeDiff(n) == [op |-> opAddNode, jobId |-> 0, nodeId |-> 0, j |-> <<>>, n |-> <<n>>]
rmNodeDiff(nid) == [op |-> opRmNode, jobId |-> 0, nodeId |-> nid, j |-> <<>>, n |-> <<>>]
jobDiff(j) == [op |-> opAddJob, jobId |-> 0, nodeId |-> 0, j |-> <<j>>, n |-> <<>>]
rmJobDiff(jid) == [op |-> opRmJob, jobId |-> jid, nodeId |-> 0, j |-> <<>>, n |-> <<>>]

\* copyNode, copyJob: a deep copy is a record of its own (own), which no
\* later change of the catalog's record reaches
copyNode(n) == [id |-> n.id, lastSeen |-> n.lastSeen, capa |-> n.capa, used |-> n.used,
                jobs |-> n.jobs, own |-> TRUE]
copyJob(j) == [Id |-> j.Id, capa |-> j.capa, want |-> j.want, nodes |-> j.nodes, own |-> TRUE]

\* doAddNode, doRmNode, doAddJob, doRmJob on the catalogs
doAddNode(l, n) ==
    LET i == nlistIndex(l, n.id)
    IN  IF i < Len(l) /\ l[i + 1].id = n.id
        THEN [l EXCEPT ![i + 1] = n]
        ELSE InsertAt(l, i, n)
doRmNode(l, id) ==
    LET i == nlistIndex(l, id)
    IN  IF i < Len(l) /\ l[i + 1].id = id THEN RemoveAt(l, i) ELSE l
\* (a catalog that appends the job instead of inserting it at jobs.index)
doAddJobAppend(l, j) == Append(l, j)
doAddJob(l, j) ==
    LET i == jlistIndex(l, j.Id)
    IN  IF i < Len(l) /\ l[i + 1].Id = j.Id
        THEN [l EXCEPT ![i + 1] = j]
        ELSE InsertAt(l, i, j)
doRmJob(l, id) ==
    LET i == jlistIndex(l, id)
    IN  IF i < Len(l) /\ l[i + 1].Id = id THEN RemoveAt(l, i) ELSE l

\* append(j.nodes, id): cap(j.nodes) is want; a full slice is reallocated
\* with doubled capacity
appendCap(len, cap) == IF len < cap THEN cap ELSE IF cap = 0 THEN 1 ELSE 2 * cap

\* node.doAddJob on the catalog records at positions ni, ji
nodeDoAddJob(st, ni, ji) ==
    LET n == st.nodes[ni]
        j == st.jobs[ji]
        i == jobListIndex(n.jobs, j.Id)
    IN  [st EXCEPT !.nodes[ni].jobs = InsertAt(n.jobs, i, j.Id),
                   !.nodes[ni].used = n.used + j.capa,
                   !.jobs[ji].nodes = Append(j.nodes, n.id),
                   !.jobs[ji].want = appendCap(Len(j.nodes), j.want)]

\* for i, v := range j.nodes { if v == n.id { remove; break } }
RECURSIVE RemoveFirst(_, _)
RemoveFirst(s, e) ==
    IF s = <<>> THEN s
    ELSE IF Head(s) = e THEN Tail(s)
    ELSE <<Head(s)>> \o RemoveFirst(Tail(s), e)

\* node.doRmJob: both records are looked up again by id
nodeDoRmJob(st, nid, jid) ==
    LET ni == nlistFind(st.nodes, nid)
        ji == jlistFind(st.jobs, jid)
    IN  IF ni = 0 \/ ji = 0 THEN st
        ELSE LET n == st.nodes[ni]
                 j == st.jobs[ji]
                 i == jobListIndex(n.jobs, jid)
             IN  IF i + 1 > Len(n.jobs)
                 THEN Panic(st)         \* n.jobs[i+1:]: slice bounds out of range
                 ELSE [st EXCEPT !.nodes[ni].jobs = RemoveAt(n.jobs, i),
                                 !.nodes[ni].used = n.used - j.capa,
                                 !.jobs[ji].nodes = RemoveFirst(j.nodes, nid)]

\* the scan of doOp's opAddLink/opRmLink case: the first entry equal to the
\* opposite op is removed, an equal entry stops the scan, else l is appended
\* (a scan that never cancels the opposite entry)
linkScanKeep(st, l, notl, i) ==
    IF \E k \in 1..st.dlen : st.dbuf[k] = l THEN st
    ELSE SetDiffs(st, Append(Diffs(st), l))
RECURSIVE linkScan(_, _, _, _)
linkScan(st, l, notl, i) ==
    IF i >= st.dlen THEN SetDiffs(st, Append(Diffs(st), l))
    ELSE IF st.dbuf[i + 1] = notl THEN SetDiffs(st, RemoveAt(Diffs(st), i))
    ELSE IF st.dbuf[i + 1] = l THEN st
    ELSE linkScan(st, l, notl, i + 1)

xor1(op) == IF op % 2 = 0 THEN op + 1 ELSE op - 1

linkCoalesce(st, op, jid, nid) ==
    linkScan(st, linkDiff(op, jid, nid), linkDiff(xor1(op), jid, nid), 0)

\* doOp(opRmLink) with j and n given by id
opRmLinkDo(st, jid, nid) ==
    LET s1 == nodeDoRmJob(st, nid, jid)
    IN  IF s1.ok THEN linkCoalesce(s1, opRmLink, jid, nid) ELSE s1

\* doOp(opAddLink) as the scheduler calls it (node.addJob), with the
\* catalog's own records
opAddLinkDo(st, ni, ji) ==
    linkCoalesce(nodeDoAddJob(st, ni, ji), opAddLink,
                 st.jobs[ji].Id, st.nodes[ni].id)

\* doOp(opAddNode) after doAddNode, and doOp(opNodeSeen) after the update in
\* place: the range loop runs over the L entries the backing array held at
\* its start, while an opRmNode entry is cut out of diffs without leaving
\* the loop
RECURSIVE addNodeScan(_, _, _, _)
addNodeScan(st, n, i, L) ==
    IF i >= L THEN SetDiffs(st, Append(Diffs(st), nodeDiff(copyNode(n))))
    ELSE LET v == st.dbuf[i + 1]
         IN  IF v.op = opAddNode /\ v.n[1].id = n.id
             THEN IF i >= st.dlen THEN Panic(st)    \* diffs[i]: index out of range
                  ELSE SetDiffs(st, [Diffs(st) EXCEPT ![i + 1].n = <<copyNode(n)>>])
             ELSE IF v.op = opRmNode /\ v.nodeId = n.id
             THEN IF i + 1 > st.dlen THEN Panic(st) \* diffs[i+1:]: out of range
                  ELSE addNodeScan(SetDiffs(st, RemoveAt(Diffs(st), i)), n, i + 1, L)
             ELSE addNodeScan(st, n, i + 1, L)

opAddNodeDo(st, n) ==
    LET s1 == [st EXCEPT !.nodes = doAddNode(st.nodes, n)]
    IN  addNodeScan(s1, n, 0, s1.dlen)

\* doOp(opRmNode): the cascade ranges over the backing array arr of
\* tmpn.jobs as it was when the loop started (L entries), while each
\* opRmLink shifts that array in place
RECURSIVE rmNodeCascade(_, _, _, _)
rmNodeCascade(st, nid, arr, k) ==
    IF k >= Len(arr) \/ ~st.ok THEN st
    ELSE LET s1 == opRmLinkDo(st, arr[k + 1], nid)
             ni == nlistFind(s1.nodes, nid)
         IN  rmNodeCascade(s1, nid, WriteBack(arr, s1.nodes[ni].jobs), k + 1)

\* (a scan that appends the opRmNode entry whatever the log holds)
rmNodeScanAppend(st, nid, i) == SetDiffs(st, Append(Diffs(st), rmNodeDiff(nid)))
RECURSIVE rmNodeScan(_, _, _)
rmNodeScan(st, nid, i) ==
    IF i >= st.dlen THEN SetDiffs(st, Append(Diffs(st), rmNodeDiff(nid)))
    ELSE LET v == st.dbuf[i + 1]
         IN  IF v.op = opRmNode /\ v.nodeId = nid THEN st
             ELSE IF v.op = opAddNode /\ v.n[1].id = nid
             THEN SetDiffs(st, RemoveAt(Diffs(st), i))
             ELSE rmNodeScan(st, nid, i + 1)

opRmNodeDo(st, nid) ==
    LET ni == nlistFind(st.nodes, nid)
    IN  IF ni = 0 THEN Panic(st)        \* tmpn.jobs with tmpn == nil
        ELSE LET s1 == rmNodeCascade(st, nid, st.nodes[ni].jobs, 0)
             IN  IF ~s1.ok THEN s1
                 ELSE rmNodeScan([s1 EXCEPT !.nodes = doRmNode(s1.nodes, nid)], nid, 0)

\* doOp(opAddJob)
RECURSIVE addJobScan(_, _, _, _)
addJobScan(st, j, i, L) ==
    IF i >= L THEN SetDiffs(st, Append(Diffs(st), jobDiff(copyJob(j))))
    ELSE LET v == st.dbuf[i + 1]
         IN  IF v.op = opAddJob /\ v.j[1].Id = j.Id
             THEN IF i >= st.dlen THEN Panic(st)
                  ELSE SetDiffs(st, [Diffs(st) EXCEPT ![i + 1].j = <<copyJob(j)>>])
             ELSE IF v.op = opRmJob /\ v.jobId = j.Id
             THEN IF i + 1 > st.dlen THEN Panic(st)
                  ELSE addJobScan(SetDiffs(st, RemoveAt(Diffs(st), i)), j, i + 1, L)
             ELSE addJobScan(st, j, i + 1, L)

opAddJobDo(st, j) ==
    LET s1 == [st EXCEPT !.jobs = doAddJob(st.jobs, j)]
    IN  addJobScan(s1, j, 0, s1.dlen)

\* doOp(opRmJob): the cascade ranges over the backing array arr of
\* tmpj.nodes as it was when the loop started, while each opRmLink shifts
\* that array in place
RECURSIVE rmJobCascade(_, _, _, _)
rmJobCascade(st, jid, arr, k) ==
    IF k >= Len(arr) \/ ~st.ok THEN st
    ELSE LET s1 == opRmLinkDo(st, jid, arr[k + 1])
             ji == jlistFind(s1.jobs, jid)
         IN  rmJobCascade(s1, jid, WriteBack(arr, s1.jobs[ji].nodes), k + 1)

\* the scan compares an opRmJob entry's nodeId (never set for that op, so 0)
\* with the job id
RECURSIVE rmJobScan(_, _, _)
rmJobScan(st, jid, i) ==
    IF i >= st.dlen THEN SetDiffs(st, Append(Diffs(st), rmJobDiff(jid)))
    ELSE LET v == st.dbuf[i + 1]
         IN  IF v.op = opRmJob /\ v.nodeId = jid THEN st
             ELSE IF v.op = opAddJob /\ v.j[1].Id = jid
             THEN SetDiffs(st, RemoveAt(Diffs(st), i))
             ELSE rmJobScan(st, jid, i + 1)

opRmJobDo(st, jid) ==
    LET ji == jlistFind(st.jobs, jid)
    IN  IF ji = 0 THEN Panic(st)        \* tmpj.nodes with tmpj == nil
        ELSE LET s1 == rmJobCascade(st, jid, st.jobs[ji].nodes, 0)
             IN  IF ~s1.ok THEN s1
                 ELSE rmJobScan([s1 EXCEPT !.jobs = doRmJob(s1.jobs, jid)], jid, 0)

\* perm(nodes): the permutations rand.Perm can return, as sequences of
\* 1-based positions
Perms(n) == {p \in [1..n -> 1..n] : \A a, b \in 1..n : a # b => p[a] # p[b]}
AllPerms == UNION {Perms(n) : n \in 0..MaxNodeId}

\* cand = cand[1:] while the head is not runnable: c is the number of jobs
\* dropped from the head of cand; Len(jobs) when cand became empty
RECURSIVE skipFull(_, _)
skipFull(js, c) ==
    IF c >= Len(js) THEN c
    ELSE IF ~runnable(js[c + 1]) THEN skipFull(js, c + 1)
    ELSE c

\* the first candidate (position in jobs, from c) that is runnable and
\* that n can run; 0 when there is none
RECURSIVE firstFit(_, _, _)
firstFit(st, ni, k) ==
    IF k > Len(st.jobs) THEN 0
    ELSE IF runnable(st.jobs[k]) /\ canRun(st.nodes[ni], st.jobs[k]) THEN k
    ELSE firstFit(st, ni, k + 1)

\* schedule()'s nested loops: i is the index into tmpnodes of the node
\* about to be tried, lastmod as in the source, c the head of cand
RECURSIVE schedLoop(_, _, _, _, _)
schedLoop(st, p, i, lastmod, c) ==
    IF i >= Len(st.nodes)
    THEN IF lastmod = -1 THEN st ELSE schedLoop(st, p, 0, lastmod, c)
    ELSE IF i = lastmod THEN st
    ELSE LET ni == p[i + 1]
             k == firstFit(st, ni, c + 1)
         IN  IF k = 0 THEN schedLoop(st, p, i + 1, lastmod, c)
             ELSE LET s1 == opAddLinkDo(st, ni, k)
                      c1 == skipFull(s1.jobs, c)
                  IN  IF c1 >= Len(s1.jobs) THEN s1
                      ELSE schedLoop(s1, p, i + 1, i, c1)

schedule(st, p) ==
    IF Len(st.nodes) = 0 \/ Len(st.jobs) = 0 THEN st
    ELSE LET c == skipFull(st.jobs, 0)
         IN  IF c >= Len(st.jobs) THEN st
             ELSE schedLoop(st, p, 0, -1, c)

\* doOp(opNodeSeen): lastSeen is updated in place, then control falls
\* through to the opAddNode scan with the catalog's record
opNodeSeenDo(st, n) ==
    LET ni == nlistFind(st.nodes, n.id)
    IN  IF ni = 0 THEN st
        ELSE LET s1 == [st EXCEPT !.nodes[ni].lastSeen = n.lastSeen]
             IN  addNodeScan(s1, s1.nodes[ni], 0, s1.dlen)

\* commit()'s handling of one of its two slices (diffs, results): the
\* snapshot handed to dbCommit is the slice itself; the loop goes on with a
\* fresh buffer unless the slice is empty.  In the snapshot, shared says
\* that it still lies in the buffer the loop appends to.
\* (a commit that truncates the slice and keeps its buffer)
commitSliceInPlace(buf, len) ==
    [snap |-> [shared |-> TRUE, arr |-> <<>>, len |-> len],
     fresh |-> FALSE, buf |-> buf, len |-> 0]
commitSlice(buf, len) ==
    IF len # 0
    THEN [snap |-> [shared |-> FALSE, arr |-> SubSeq(buf, 1, len), len |-> len],
          fresh |-> TRUE, buf |-> <<>>, len |-> 0]
    ELSE [snap |-> [shared |-> TRUE, arr |-> <<>>, len |-> len],
          fresh |-> FALSE, buf |-> buf, len |-> len]

\* commit()'s early return: nothing to commit
nothingToCommit(dlen, rlen) == dlen = 0 /\ rlen = 0

\* what a snapshot shows to the task that holds it
SnapView(sn, buf) == IF sn.shared THEN SubSeq(buf, 1, sn.len) ELSE sn.arr
\* what dbCommit reads through an entry's pointer: the copy, or, were it
\* none, the catalog's record as it is now
seenNode(p) ==
    IF p.own \/ nlistFind(nodes, p.id) = 0 THEN p
    ELSE LET c == nodes[nlistFind(nodes, p.id)]
         IN  [id |-> c.id, lastSeen |-> c.lastSeen, capa |-> c.capa, used |-> c.used,
              jobs |-> c.jobs, own |-> FALSE]
seenJob(p) ==
    IF p.own \/ jlistFind(jobs, p.Id) = 0 THEN p
    ELSE LET c == jobs[jlistFind(jobs, p.Id)]
         IN  [Id |-> c.Id, capa |-> c.capa, want |-> c.want, nodes |-> c.nodes, own |-> FALSE]
seenDiff(e) ==
    [e EXCEPT !.n = IF @ = <<>> THEN @ ELSE <<seenNode(@[1])>>,
              !.j = IF @ = <<>> THEN @ ELSE <<seenJob(@[1])>>]
TaskDiffs(t) ==
    LET v == SnapView(t.d, diffBuf)
    IN  [k \in 1..Len(v) |-> seenDiff(v[k])]
TaskResults(t) == SnapView(t.r, resBuf)

\* a snapshot that shared the loop's buffer keeps the old buffer when the
\* loop moves to a fresh one
Detach(sn, buf) ==
    IF sn.shared THEN [shared |-> FALSE, arr |-> SubSeq(buf, 1, sn.len), len |-> sn.len]
    ELSE sn

\* the part of a backing array that the loop's slice or a snapshot can read
RECURSIVE MaxShared(_, _)
MaxShared(ts, f) ==
    IF ts = <<>> THEN 0
    ELSE LET m == MaxShared(Tail(ts), f)
             sn == IF f = "d" THEN Head(ts).d ELSE Head(ts).r
         IN  IF sn.shared /\ sn.len > m THEN sn.len ELSE m
Visible(buf, len, ts, f) ==
    LET m == MaxShared(ts, f)
    IN  SubSeq(buf, 1, IF m > len THEN (IF m > Len(buf) THEN Len(buf) ELSE m) ELSE len)

\* ------------------------------------------------------------ database load
\* loadNodes, loadJobs: the rows in any order, then sort.Sort by id
RECURSIVE SortedIds(_)
SortedIds(S) ==
    IF S = {} THEN <<>>
    ELSE LET m == CHOOSE x \in S : \A y \in S : x <= y
         IN  <<m>> \o SortedIds(S \ {m})

newNode(id) == [id |-> id, lastSeen |-> 0, capa |-> NodeCapa, used |-> 0, jobs |-> <<>>]
newJob(id, capa, want) == [Id |-> id, capa |-> capa, want |-> want, nodes |-> <<>>]

loadNodes(ids) == [k \in 1..Cardinality(ids) |-> newNode(SortedIds(ids)[k])]
\* f gives each job row's <<capa, want>>
loadJobs(ids, f) ==
    [k \in 1..Cardinality(ids) |->
        newJob(SortedIds(ids)[k], f[SortedIds(ids)[k]][1], f[SortedIds(ids)[k]][2])]

\* loadRunning: node.doAddJob for each row <<job, node>> of running
RECURSIVE loadRunning(_, _)
loadRunning(st, rows) ==
    IF rows = <<>> THEN st
    ELSE loadRunning(nodeDoAddJob(st, nlistFind(st.nodes, Head(rows)[2]),
                                  jlistFind(st.jobs, Head(rows)[1])),
                     Tail(rows))

\* ------------------------------------------------------------------ history
\* the links held in memory, as the jobs' nodes lists give them
Range(sq) == {sq[k] : k \in 1..Len(sq)}
JobSideLinks == UNION {{<<jobs[a].Id, nid>> : nid \in Range(jobs[a].nodes)} : a \in 1..Len(jobs)}

\* ----------------------------------------------------------------- actions
Diffs0 == SubSeq(diffBuf, 1, diffLen)
Results0 == SubSeq(resBuf, 1, resLen)
Store == [nodes |-> nodes, jobs |-> jobs, dbuf |-> diffBuf, dlen |-> diffLen, ok |-> TRUE]

\* `case r := <-opChan: doOp(r)`: the loop's data after doOp; a panic is
\* recovered by the deferred function, which the loop then runs
AfterOp(st) ==
    /\ nodes' = st.nodes
    /\ jobs' = st.jobs
    /\ diffBuf' = Visible(st.dbuf, st.dlen, tasks, "d")
    /\ diffLen' = st.dlen
    /\ panicked' = (panicked \/ ~st.ok)
    /\ pc' = IF st.ok THEN pc ELSE "wait"

Step(op, id) == last' = [op |-> op, id |-> id, dlen |-> diffLen]

\* requestSchedule, requestCommit: if len(ch) == 0 { ch <- true }
request(n) == IF n = 0 THEN 1 ELSE n

\* mgmtAddNode: refused if getJob(n.id) finds a job; then addNode
MgmtAddNode(id, max) ==
    /\ pc = "run" /\ nops < max
    /\ jlistFind(jobs, id) = 0
    /\ AfterOp(opAddNodeDo(Store, newNode(id)))
    /\ nops' = nops + 1
    /\ Step("addnode", id)
    /\ UNCHANGED <<resBuf, resLen, committing, schedReq, commitReq, commitDone,
                   tasks, sess, nsess, linkBase, missed, ext>>

\* mgmtRmNode: refused if getNode(id) finds no node; then rmNode
MgmtRmNode(id, max) ==
    /\ pc = "run" /\ nops < max
    /\ nlistFind(nodes, id) # 0
    /\ AfterOp(opRmNodeDo(Store, id))
    /\ nops' = nops + 1
    /\ Step("rmnode", id)
    /\ UNCHANGED <<resBuf, resLen, committing, schedReq, commitReq, commitDone,
                   tasks, sess, nsess, linkBase, missed, ext>>

\* mgmtAddJob: refused if getJob(j.Id) finds a job; then addJob
MgmtAddJob(id, capa, want, max) ==
    /\ pc = "run" /\ nops < max
    /\ jlistFind(jobs, id) = 0
    /\ AfterOp(opAddJobDo(Store, newJob(id, capa, want)))
    /\ nops' = nops + 1
    /\ Step("addjob", id)
    /\ UNCHANGED <<resBuf, resLen, committing, schedReq, commitReq, commitDone,
                   tasks, sess, nsess, linkBase, missed, ext>>

\* mgmtRmJob: refused if getJob(id) finds no job; then rmJob
MgmtRmJob(id, max) ==
    /\ pc = "run" /\ nops < max
    /\ jlistFind(jobs, id) # 0
    /\ AfterOp(opRmJobDo(Store, id))
    /\ nops' = nops + 1
    /\ Step("rmjob", id)
    /\ UNCHANGED <<resBuf, resLen, committing, schedReq, commitReq, commitDone,
                   tasks, sess, nsess, linkBase, missed, ext>>

\* ---- the data core alone (Spec): the operations, schedule() and commit()
\* in any order the loop may run them

\* schedule() with tmpnodes the permutation p of nodes
Schedule(p) ==
    /\ pc = "run"
    /\ p \in Perms(Len(nodes))
    /\ AfterOp(schedule(Store, p))
    /\ Step("sched", 0)
    /\ UNCHANGED <<resBuf, resLen, committing, schedReq, commitReq, commitDone,
                   tasks, sess, nops, nsess, linkBase, missed, ext>>

\* commit(): the snapshot is taken and the loop's slices are replaced
Snapshot ==
    /\ pc = "run"
    /\ ~nothingToCommit(diffLen, resLen)
    /\ LET d == commitSlice(diffBuf, diffLen)
           r == commitSlice(resBuf, resLen)
       IN  /\ diffBuf' = SubSeq(d.buf, 1, d.len) /\ diffLen' = d.len
           /\ resBuf' = SubSeq(r.buf, 1, r.len) /\ resLen' = r.len
    /\ linkBase' = JobSideLinks
    /\ Step("commit", 0)
    /\ UNCHANGED <<nodes, jobs, panicked, pc, committing, schedReq, commitReq,
                   commitDone, tasks, sess, nops, nsess, missed, ext>>

\* the database at start-up: every node, every job with some capa and want,
\* no running rows
Init ==
    /\ \E f \in [JobIds -> JobCapas \X Wants] :
          LET st == loadRunning([nodes |-> loadNodes(NodeIds), jobs |-> loadJobs(JobIds, f),
                                 dbuf |-> <<>>, dlen |-> 0, ok |-> TRUE], <<>>)
          IN  nodes = st.nodes /\ jobs = st.jobs
    /\ diffBuf = <<>> /\ diffLen = 0
    /\ resBuf = <<>> /\ resLen = 0
    /\ panicked = FALSE
    /\ pc = "run"
    /\ committing = FALSE
    /\ schedReq = 1
    /\ commitReq = 0
    /\ commitDone = <<>>
    /\ tasks = <<>>
    /\ sess = [pc |-> "idle", n |-> <<>>, r |-> <<>>]
    /\ nops = 0
    /\ nsess = 0
    /\ last = [op |-> "init", id |-> 0, dlen |-> 0]
    /\ linkBase = {}
    /\ missed = FALSE
    /\ ExtOffExcept("")

Next ==
    \/ \E id \in NodeIds : MgmtAddNode(id, MaxOps)
    \/ \E id \in NodeIds : MgmtRmNode(id, MaxOps)
    \/ \E id \in JobIds, capa \in JobCapas, want \in Wants : MgmtAddJob(id, capa, want, MaxOps)
    \/ \E id \in JobIds : MgmtRmJob(id, MaxOps)
    \/ \E p \in AllPerms : Schedule(p)
    \/ Snapshot

Spec == Init /\ [][Next]_vars

\* ------------------------------------------------- properties of the core
\* sum of capa over the catalogued jobs whose ids are in S
RECURSIVE SumCapa(_, _)
SumCapa(js, S) ==
    IF js = <<>> THEN 0
    ELSE (IF Head(js).Id \in S THEN Head(js).capa ELSE 0) + SumCapa(Tail(js), S)

JobIdsOf(js) == {js[b].Id : b \in 1..Len(js)}
LinkEntries(op, jid, nid) ==
    {i \in 1..diffLen : diffBuf[i].op = op /\ diffBuf[i].jobId = jid /\ diffBuf[i].nodeId = nid
                        /\ diffBuf[i].j = <<>> /\ diffBuf[i].n = <<>>}

\* C1: after every operation that completes, links are symmetric: for every
\* node n and job j in the catalogs, j.Id is in n.jobs iff n.id is in j.nodes
C1_Symmetry ==
    ~panicked =>
        \A a \in 1..Len(nodes), b \in 1..Len(jobs) :
            (jobs[b].Id \in Range(nodes[a].jobs)) <=> (nodes[a].id \in Range(jobs[b].nodes))

\* C2: after every operation that completes, each node's used equals the sum
\* of capa over the jobs in its jobs list (nodes whose jobs are all in the
\* catalog, where that sum is defined)
C2_UsedIsSum ==
    ~panicked =>
        \A a \in 1..Len(nodes) :
            Range(nodes[a].jobs) \subseteq JobIdsOf(jobs)
                => nodes[a].used = SumCapa(jobs, Range(nodes[a].jobs))

\* C3: a scheduler run only adds links, each to a job that had fewer
\* replicas than want and onto a node that did not run the job and had room
\* for it: after the run no job has more replicas than want, no want has
\* changed, every node's used grew by the capa of the jobs it got and no node
\* that got a job has used > capa
IsPrefix(s, t) == Len(s) <= Len(t) /\ SubSeq(t, 1, Len(s)) = s
ScheduleStep == last'.op = "sched"
C3_SchedulerKeepsLimits ==
    [][ScheduleStep =>
        /\ ~panicked'
        /\ Len(jobs') = Len(jobs) /\ Len(nodes') = Len(nodes)
        /\ \A b \in 1..Len(jobs) :
              /\ jobs'[b].Id = jobs[b].Id /\ jobs'[b].capa = jobs[b].capa
              /\ jobs'[b].want = jobs[b].want
              /\ IsPrefix(jobs[b].nodes, jobs'[b].nodes)
              /\ Len(jobs'[b].nodes) <= jobs'[b].want
        /\ \A a \in 1..Len(nodes) :
              LET got == Range(nodes'[a].jobs) \ Range(nodes[a].jobs)
              IN  /\ nodes'[a].id = nodes[a].id /\ nodes'[a].capa = nodes[a].capa
                  /\ Range(nodes[a].jobs) \subseteq Range(nodes'[a].jobs)
                  /\ Len(nodes'[a].jobs) = Len(nodes[a].jobs) + Cardinality(got)
                  /\ nodes'[a].used = nodes[a].used + SumCapa(jobs, got)
                  /\ got # {} => nodes'[a].used <= nodes'[a].capa
                  /\ \A jid \in got :
                        LET b == jlistFind(jobs, jid)
                        IN  /\ Len(jobs[b].nodes) < jobs[b].want
                            /\ nodes[a].id \in Range(jobs'[b].nodes)
      ]_vars

\* a run that gave out links, after which one job is full at MaxWant
\* replicas and another, still wanting replicas, fits on no node that does
\* not run it yet
C3_Witness ==
    /\ last.op = "sched" /\ diffLen > last.dlen
    /\ \E b \in 1..Len(jobs) : Len(jobs[b].nodes) = MaxWant /\ jobs[b].want = MaxWant
    /\ \E b \in 1..Len(jobs) :
          /\ Len(jobs[b].nodes) < jobs[b].want
          /\ \E a \in 1..Len(nodes) :
                jobs[b].Id \notin Range(nodes[a].jobs)
                /\ jobs[b].capa > nodes[a].capa - nodes[a].used

\* C4: after RmNode(n), n is absent from the node catalog and no job's nodes
\* list contains n.id, whatever the number of jobs the node ran
C4_RmNodeRemovesAllLinks ==
    last.op = "rmnode" =>
        /\ ~panicked
        /\ nlistFind(nodes, last.id) = 0
        /\ \A b \in 1..Len(jobs) : last.id \notin Range(jobs[b].nodes)

\* C5: RmJob(j) leaves j absent from the job catalog and from every node's
\* jobs list, reduces used by j.capa exactly once on each node that ran j,
\* and removes no other job from any node's jobs list
RmJobStep == last'.op = "rmjob" /\ nops' = nops + 1
C5_RmJobRemovesAllLinks ==
    [][RmJobStep =>
        LET jid == last'.id
            capa == jobs[jlistFind(jobs, jid)].capa
        IN  /\ ~panicked'
            /\ jlistFind(jobs', jid) = 0
            /\ Len(nodes') = Len(nodes)
            /\ \A a \in 1..Len(nodes) :
                  /\ jid \notin Range(nodes'[a].jobs)
                  /\ Range(nodes'[a].jobs) = Range(nodes[a].jobs) \ {jid}
                  /\ nodes'[a].used = nodes[a].used
                                      - (IF jid \in Range(nodes[a].jobs) THEN capa ELSE 0)
      ]_vars

\* C6: for every (job, node) pair the diff log holds at most one link entry,
\* and that entry is the net operation on the pair since the last commit
\* snapshot: AddLink only for a pair linked now and not at the snapshot,
\* RmLink only for a pair linked at the snapshot and not now
C6_LinkEntryIsNetOp ==
    ~panicked =>
        \A jid \in JobIds, nid \in NodeIds :
            /\ Cardinality(LinkEntries(opAddLink, jid, nid)
                           \cup LinkEntries(opRmLink, jid, nid)) <= 1
            /\ LinkEntries(opAddLink, jid, nid) # {}
                  => <<jid, nid>> \in JobSideLinks /\ <<jid, nid>> \notin linkBase
            /\ LinkEntries(opRmLink, jid, nid) # {}
                  => <<jid, nid>> \notin JobSideLinks /\ <<jid, nid>> \in linkBase

\* C7: the diff log never holds both an AddLink and an RmLink for the same
\* (job, node) pair, nor both an AddNode and an RmNode for the same node id
C7_NoOppositeEntries ==
    /\ \A jid \in JobIds, nid \in NodeIds :
          LinkEntries(opAddLink, jid, nid) = {} \/ LinkEntries(opRmLink, jid, nid) = {}
    /\ \A nid \in NodeIds :
          ~ /\ \E i \in 1..diffLen : diffBuf[i].op = opAddNode /\ diffBuf[i].n[1].id = nid
            /\ \E i \in 1..diffLen : diffBuf[i].op = opRmNode /\ diffBuf[i].nodeId = nid

\* an RmNode that met the node's pending AddLink entries and cancelled them
C7_Witness ==
    /\ last.op = "rmnode" /\ ~panicked
    /\ diffLen < last.dlen

\* ------------------------------------------------------------ the data loop
\* (SpecLoop) dataLoop's select cases, the commit tasks it starts, its
\* deferred function, one node session and the management requests

\* the guard of the commitReqChan case
\* (a guard that lets every request start a commit)
mayCommitAlways(c) == TRUE
mayCommit(c) == ~c

\* commit(done), with cd the content of commitDone before the call
commit(cd) ==
    IF nothingToCommit(diffLen, resLen)
    THEN /\ Len(cd) < chanCap
         /\ commitDone' = Append(cd, FALSE)
         /\ UNCHANGED <<diffBuf, diffLen, resBuf, resLen, tasks>>
    ELSE LET d == commitSlice(diffBuf, diffLen)
             r == commitSlice(resBuf, resLen)
             old == [k \in 1..Len(tasks) |->
                        [tasks[k] EXCEPT
                            !.d = IF d.fresh THEN Detach(@, diffBuf) ELSE @,
                            !.r = IF r.fresh THEN Detach(@, resBuf) ELSE @]]
             new == [d |-> d.snap, r |-> r.snap,
                     taken |-> [d |-> Diffs0, r |-> Results0]]
             ts == Append(old, new)
         IN  /\ tasks' = ts
             /\ diffLen' = d.len
             /\ diffBuf' = Visible(d.buf, d.len, ts, "d")
             /\ resLen' = r.len
             /\ resBuf' = Visible(r.buf, r.len, ts, "r")
             /\ commitDone' = cd

\* case <-headShot: return
Headshot ==
    /\ pc = "run"
    /\ pc' = "wait"
    /\ UNCHANGED <<dataVars, committing, schedReq, commitReq, commitDone, tasks,
                   sess, nops, nsess, last, linkBase, missed, ext>>

\* case <-t.C: requestSchedule()
Tick ==
    /\ pc = "run"
    /\ schedReq = 0
    /\ schedReq' = request(schedReq)
    /\ UNCHANGED <<dataVars, pc, committing, commitReq, commitDone, tasks,
                   sess, nops, nsess, last, linkBase, missed, ext>>

\* mgmtSched: requestSchedule()
MgmtSched ==
    /\ pc = "run"
    /\ schedReq = 0
    /\ schedReq' = request(schedReq)
    /\ UNCHANGED <<dataVars, pc, committing, commitReq, commitDone, tasks,
                   sess, nops, nsess, last, linkBase, missed, ext>>

\* mgmtCommit: requestCommit()
MgmtCommit ==
    /\ pc = "run"
    /\ commitReq = 0
    /\ commitReq' = request(commitReq)
    /\ UNCHANGED <<dataVars, pc, committing, schedReq, commitDone, tasks,
                   sess, nops, nsess, last, linkBase, missed, ext>>

\* case <-schedReqChan: schedule(); requestCommit()
SchedCase(p) ==
    /\ pc = "run"
    /\ schedReq > 0
    /\ p \in Perms(Len(nodes))
    /\ schedReq' = schedReq - 1
    /\ AfterOp(schedule(Store, p))
    /\ commitReq' = request(commitReq)
    /\ UNCHANGED <<resBuf, resLen, committing, commitDone, tasks, sess, nops,
                   nsess, last, linkBase, missed, ext>>

\* case <-commitReqChan: if !committing { commit(commitDone); committing = true }
CommitReqCase ==
    /\ pc = "run"
    /\ commitReq > 0
    /\ commitReq' = commitReq - 1
    /\ IF mayCommit(committing)
       THEN /\ commit(commitDone)
            /\ committing' = TRUE
            /\ missed' = FALSE
       ELSE /\ missed' = (missed \/ (tasks # <<>> /\ ~nothingToCommit(diffLen, resLen)))
            /\ UNCHANGED <<diffBuf, diffLen, resBuf, resLen, tasks, commitDone,
                           committing>>
    /\ UNCHANGED <<nodes, jobs, panicked, pc, schedReq, sess, nops, nsess, last, linkBase, ext>>

\* case r := <-commitDone: committing = false
CommitDoneCase ==
    /\ pc = "run"
    /\ commitDone # <<>>
    /\ commitDone' = Tail(commitDone)
    /\ committing' = FALSE
    /\ UNCHANGED <<dataVars, pc, schedReq, commitReq, tasks, sess, nops, nsess,
                   last, linkBase, missed, ext>>

\* dbCommit(d, r, done) runs to its end: done <- true
TaskDone(i) ==
    /\ i \in 1..Len(tasks)
    /\ Len(commitDone) < chanCap
    /\ tasks' = RemoveAt(tasks, i - 1)
    /\ commitDone' = Append(commitDone, TRUE)
    /\ diffBuf' = Visible(diffBuf, diffLen, tasks', "d")
    /\ resBuf' = Visible(resBuf, resLen, tasks', "r")
    /\ UNCHANGED <<nodes, jobs, diffLen, resLen, panicked, pc, committing, schedReq,
                   commitReq, sess, nops, nsess, last, linkBase, missed, ext>>

\* the deferred function's test before the final commit: if committing
\* (a deferred function that never waits for the running commit)
awaitsNever(c) == FALSE
awaitsCommit(c) == c

\* the deferred function, up to the final commit:
\* if committing { <-commitDone; committing = false }; commit(commitDone)
\* (last keeps whether it had to wait, 2 if for a commit task, and how much
\* was left to commit)
DeferCommit ==
    /\ pc = "wait"
    /\ awaitsCommit(committing) => commitDone # <<>>
    /\ commit(IF awaitsCommit(committing) THEN Tail(commitDone) ELSE commitDone)
    /\ committing' = (committing /\ ~awaitsCommit(committing))
    /\ missed' = FALSE
    /\ pc' = "final"
    /\ last' = [op |-> "final",
                id |-> IF ~committing THEN 0 ELSE IF Head(commitDone) THEN 2 ELSE 1,
                dlen |-> diffLen + resLen]
    /\ UNCHANGED <<nodes, jobs, panicked, schedReq, commitReq, sess, nops, nsess,
                   linkBase, ext>>

\* the deferred function's end: <-commitDone; dbClose()
DeferClose ==
    /\ pc = "final"
    /\ commitDone # <<>>
    /\ commitDone' = Tail(commitDone)
    /\ pc' = "closed"
    /\ UNCHANGED <<dataVars, committing, schedReq, commitReq, tasks, sess, nops,
                   nsess, last, linkBase, missed, ext>>

\* the first deferred function, run last: done <- true, received by main
\* at exit
Ack ==
    /\ pc = "closed"
    /\ pc' = "done"
    /\ UNCHANGED <<dataVars, committing, schedReq, commitReq, commitDone, tasks, sess,
                   nops, nsess, last, linkBase, missed, ext>>

\* handle(): a node's session runs to its end: getNode in authClient, the
\* new lastSeen and the results in recvLogs
SessHandle(id) ==
    /\ pc = "run"
    /\ sess.pc = "idle" /\ nsess < MaxSess
    /\ nlistFind(nodes, id) # 0
    /\ nsess' = nsess + 1
    /\ sess' = [pc |-> "seen",
                n |-> <<[copyNode(nodes[nlistFind(nodes, id)]) EXCEPT !.lastSeen = nsess + 1]>>,
                r |-> <<[nodeId |-> id, Start |-> nsess + 1]>>]
    /\ UNCHANGED <<dataVars, pc, committing, schedReq, commitReq, commitDone, tasks,
                   nops, last, linkBase, missed, ext>>

\* nodeSeen(d.n), taken by the loop: doOp(opNodeSeen)
OpNodeSeen ==
    /\ pc = "run"
    /\ sess.pc = "seen"
    /\ AfterOp(opNodeSeenDo(Store, sess.n[1]))
    /\ sess' = [sess EXCEPT !.pc = "res"]
    /\ UNCHANGED <<resBuf, resLen, committing, schedReq, commitReq, commitDone, tasks,
                   nops, nsess, last, linkBase, missed, ext>>

\* addResults(d.r), taken by the loop: results = append(results, r.r...)
OpAddResults ==
    /\ pc = "run"
    /\ sess.pc = "res"
    /\ resBuf' = Visible(WriteBack(resBuf, Results0 \o sess.r), resLen + Len(sess.r), tasks, "r")
    /\ resLen' = resLen + Len(sess.r)
    /\ sess' = [sess EXCEPT !.pc = "req"]
    /\ UNCHANGED <<nodes, jobs, diffBuf, diffLen, panicked, pc, committing, schedReq,
                   commitReq, commitDone, tasks, nops, nsess, last, linkBase, missed, ext>>

\* the session's last call: requestCommit()
SessRequestCommit ==
    /\ sess.pc = "req"
    /\ commitReq' = request(commitReq)
    /\ sess' = [pc |-> "idle", n |-> <<>>, r |-> <<>>]
    /\ UNCHANGED <<dataVars, pc, committing, schedReq, commitDone, tasks, nops,
                   nsess, last, linkBase, missed, ext>>

\* the database at start-up: every node, and job 0 wanting MaxWant replicas
\* and running on all of them; requests and the session are about job 0 and
\* node 1
LoopRows == [k \in 1..MaxNodeId |-> <<0, k>>]
LoopNodeIds == {1}
InitLoop ==
    /\ LET st == loadRunning([nodes |-> loadNodes(NodeIds),
                              jobs |-> loadJobs({0}, [x \in {0} |-> <<1, MaxWant>>]),
                              dbuf |-> <<>>, dlen |-> 0, ok |-> TRUE], LoopRows)
       IN  nodes = st.nodes /\ jobs = st.jobs
    /\ diffBuf = <<>> /\ diffLen = 0
    /\ resBuf = <<>> /\ resLen = 0
    /\ panicked = FALSE
    /\ pc = "run"
    /\ committing = FALSE
    /\ schedReq = 1
    /\ commitReq = 0
    /\ commitDone = <<>>
    /\ tasks = <<>>
    /\ sess = [pc |-> "idle", n |-> <<>>, r |-> <<>>]
    /\ nops = 0
    /\ nsess = 0
    /\ last = [op |-> "init", id |-> 0, dlen |-> 0]
    /\ linkBase = {}
    /\ missed = FALSE
    /\ ExtOffExcept("")

NextLoop ==
    \/ Headshot
    \/ Tick
    \/ MgmtSched
    \/ MgmtCommit
    \/ \E p \in AllPerms : SchedCase(p)
    \/ CommitReqCase
    \/ CommitDoneCase
    \/ \E i \in 1..chanCap : TaskDone(i)
    \/ DeferCommit
    \/ DeferClose
    \/ Ack
    \/ \E id \in LoopNodeIds : SessHandle(id)
    \/ OpNodeSeen
    \/ OpAddResults
    \/ SessRequestCommit
    \/ \E id \in LoopNodeIds : MgmtAddNode(id, MaxLoopOps)
    \/ \E id \in LoopNodeIds : MgmtRmNode(id, MaxLoopOps)
    \/ MgmtAddJob(0, 1, MaxWant, MaxLoopOps)
    \/ MgmtRmJob(0, MaxLoopOps)

SpecLoop == InitLoop /\ [][NextLoop]_vars

\* ------------------------------------------------- properties of the loop
\* C8: a commit task's snapshot is the whole log as it was when the request
\* was served, the loop's log is empty right after, and nothing the loop does
\* later changes what the task reads
C8_SnapshotIsolation ==
    /\ [](\A k \in 1..Len(tasks) :
            /\ TaskDiffs(tasks[k]) = tasks[k].taken.d
            /\ TaskResults(tasks[k]) = tasks[k].taken.r)
    /\ [][Len(tasks') > Len(tasks) => diffLen' = 0 /\ resLen' = 0]_vars

\* a task holds a snapshot with an RmNode entry while the log already has
\* the AddNode of the same node, which would have cancelled that entry
C8_Witness ==
    \E k \in 1..Len(tasks) :
        \E i \in 1..Len(tasks[k].taken.d), j \in 1..diffLen :
            /\ tasks[k].taken.d[i].op = opRmNode
            /\ diffBuf[j].op = opAddNode
            /\ diffBuf[j].n[1].id = tasks[k].taken.d[i].nodeId

\* C9: at most one commit task runs at any time
C9_OneCommitTask == Len(tasks) <= 1

\* the loop has panicked while a commit task runs, and its deferred
\* function has a final commit to make
C9_Witness ==
    /\ panicked /\ pc = "wait" /\ committing
    /\ Len(tasks) = 1
    /\ diffLen > 0

\* C10: when a commit request was dropped because a commit task was running
\* while the log held something to persist, then once that commit is over a
\* follow-up commit runs without a new request
C10_DroppedRequestFollowedUp ==
    (pc = "run" /\ missed /\ commitReq = 0 /\ ~nothingToCommit(diffLen, resLen))
        => committing

\* C11: on shutdown the loop waits for the running commit task, then makes
\* one final commit of everything left, then closes the DB and only then
\* acknowledges: while the final commit runs it is the only task and nothing
\* is left in the log, and from the closing of the DB on no task runs
C11_ShutdownOrder ==
    /\ pc = "final" =>
          /\ diffLen = 0 /\ resLen = 0
          /\ Len(tasks) <= 1
          /\ \A k \in 1..Len(tasks) :
                Len(tasks[k].taken.d) + Len(tasks[k].taken.r) = last.dlen
          /\ (tasks = <<>> /\ last.dlen > 0) => commitDone = <<TRUE>>
    /\ pc \in {"closed", "done"} =>
          /\ tasks = <<>>
          /\ diffLen = 0 /\ resLen = 0
          /\ commitDone = <<>>

\* the loop has acknowledged after a shutdown that found a commit task
\* running and diffs or results still to commit
C11_Witness ==
    /\ pc = "done" /\ ~panicked
    /\ last.op = "final" /\ last.id = 2 /\ last.dlen > 0

\* C12: when a scheduler run has returned no placement remains possible:
\* there is no job with fewer replicas than want and node that can run it
C12_NoPlacementLeft ==
    (last.op = "sched" /\ ~panicked) =>
        \A a \in 1..Len(nodes), b \in 1..Len(jobs) :
            ~(runnable(jobs[b]) /\ canRun(nodes[a], jobs[b]))

\* =================================================== schedule(), by statement
\* the server's variables besides the catalog, as dataLoop starts with them
SrvRest ==
    /\ diffBuf = <<>> /\ diffLen = 0
    /\ resBuf = <<>> /\ resLen = 0
    /\ panicked = FALSE
    /\ pc = "run"
    /\ committing = FALSE
    /\ schedReq = 0
    /\ commitReq = 0
    /\ commitDone = <<>>
    /\ tasks = <<>>
    /\ sess = [pc |-> "idle", n |-> <<>>, r |-> <<>>]
    /\ nops = 0
    /\ nsess = 0
    /\ last = [op |-> "init", id |-> 0, dlen |-> 0]
    /\ linkBase = {}
    /\ missed = FALSE

\* `if i == lastmod { return }`: a whole round trip without a placement
stalledNever(i, lastmod) == FALSE
stalled(i, lastmod) == i = lastmod

SchedCapas == {1, NodeCapa}
notPlacing == <<resBuf, resLen, committing, schedReq, commitReq, commitDone, tasks,
                sess, nops, nsess, last, linkBase, missed, sessX, timerX, mergeX, otherX>>
notSched == <<srvVars, sessX, timerX, mergeX, otherX>>

\* schedule() up to the outer for loop: the two early returns, or
\* tmpnodes := perm(nodes) with lastmod = -1 and cand at the first runnable job
SchedEntry(p) ==
    /\ sr.pc = "entry"
    /\ p \in Perms(Len(nodes))
    /\ sr' = IF Len(nodes) = 0 \/ Len(jobs) = 0 \/ skipFull(jobs, 0) >= Len(jobs)
             THEN [pc |-> "ret", how |-> "early", placed |-> 0]
             ELSE [pc |-> "node", tmpnodes |-> p, i |-> 0, lastmod |-> -1,
                   cand |-> skipFull(jobs, 0), placed |-> 0]
    /\ UNCHANGED notSched

\* the range over tmpnodes is exhausted: return if nothing was ever
\* placed, else start the next pass
SchedPassEnd ==
    /\ sr.pc = "node"
    /\ sr.i >= Len(sr.tmpnodes)
    /\ sr' = IF sr.lastmod = -1
             THEN [pc |-> "ret", how |-> "none", placed |-> sr.placed]
             ELSE [sr EXCEPT !.i = 0]
    /\ UNCHANGED notSched

\* `if i == lastmod { return }`
SchedStall ==
    /\ sr.pc = "node"
    /\ sr.i < Len(sr.tmpnodes)
    /\ stalled(sr.i, sr.lastmod)
    /\ sr' = [pc |-> "ret", how |-> "stall", placed |-> sr.placed]
    /\ UNCHANGED notSched

\* the inner range over cand finds nothing for this node
SchedSkip ==
    /\ sr.pc = "node"
    /\ sr.i < Len(sr.tmpnodes)
    /\ ~stalled(sr.i, sr.lastmod)
    /\ firstFit(Store, sr.tmpnodes[sr.i + 1], sr.cand + 1) = 0
    /\ sr' = [sr EXCEPT !.i = sr.i + 1]
    /\ UNCHANGED notSched

\* n.addJob(v); lastmod = i; cand loses its full head; return when cand is empty
SchedPlace ==
    /\ sr.pc = "node"
    /\ sr.i < Len(sr.tmpnodes)
    /\ ~stalled(sr.i, sr.lastmod)
    /\ firstFit(Store, sr.tmpnodes[sr.i + 1], sr.cand + 1) # 0
    /\ \E s1 \in {opAddLinkDo(Store, sr.tmpnodes[sr.i + 1],
                                firstFit(Store, sr.tmpnodes[sr.i + 1], sr.cand + 1))} :
          /\ AfterOp(s1)
          /\ sr' = IF ~s1.ok
                   THEN [pc |-> "ret", how |-> "panic", placed |-> sr.placed]
                   ELSE IF skipFull(s1.jobs, sr.cand) >= Len(s1.jobs)
                   THEN [pc |-> "ret", how |-> "full", placed |-> sr.placed + 1]
                   ELSE [sr EXCEPT !.i = sr.i + 1, !.lastmod = sr.i,
                                   !.cand = skipFull(s1.jobs, sr.cand),
                                   !.placed = sr.placed + 1]
    /\ UNCHANGED notPlacing

\* any catalog the database can hold: the first n nodes, all jobs or none
InitSched ==
    /\ \E S \in {1..n : n \in 0..MaxNodeId}, J \in {{}, JobIds},
          g \in [NodeIds -> SchedCapas], f \in [JobIds -> JobCapas \X Wants] :
          /\ nodes = [k \in 1..Cardinality(S) |->
                         [newNode(SortedIds(S)[k]) EXCEPT !.capa = g[SortedIds(S)[k]]]]
          /\ jobs = loadJobs(J, f)
    /\ SrvRest
    /\ sr = [pc |-> "entry"]
    /\ ExtOffExcept("sr")

NextSched ==
    \/ \E p \in AllPerms : SchedEntry(p)
    \/ SchedPassEnd
    \/ SchedStall
    \/ SchedSkip
    \/ SchedPlace

\* the goroutine that runs schedule() keeps executing its statements
SpecSched == InitSched /\ [][NextSched]_vars /\ WF_vars(NextSched)

\* C13: every run of schedule(), for every catalog and every permutation of
\* the nodes, reaches a return
C13_ScheduleTerminates == <>(sr.pc = "ret")

\* a run of several passes: three placements over two nodes, ended by
\* the round trip without a placement
C13_Witness ==
    /\ sr.pc = "ret" /\ sr.how = "stall"
    /\ Len(nodes) = 2
    /\ sr.placed >= 3

\* ============================================ node-server session (lib/conn)
\* What travels and what is hashed is a sequence of frames; a frame stands
\* for the bytes of one fixed-size or self-delimiting field: the greeting,
\* a 32-byte challenge, the 16 bytes of ids, a uint64, a gob message, the
\* bye byte, a 32-byte signature.
NoSig == [key |-> 0, msg |-> <<>>]
Item(t, v) == [t |-> t, v |-> v, s |-> NoSig]
SigItem(s) == [t |-> "sig", v |-> 0, s |-> s]
Hashed(it) == [t |-> it.t, v |-> it.v]

\* conn.New: no hash yet
NewConn == [h |-> [set |-> FALSE, key |-> 0, buf |-> <<>>], chalThem |-> 0, chalUs |-> 0]
\* SetKey: c.h = hmac.New(sha256.New, key)
SetKey(c, key) == [c EXCEPT !.h = [set |-> TRUE, key |-> key, buf |-> <<>>]]
WriteToHash(c, b) == IF c.h.set THEN [c EXCEPT !.h.buf = @ \o b] ELSE c
\* (a Reset that leaves the hash as it is)
ResetKeep(c) == c
Reset(c) == IF c.h.set THEN [c EXCEPT !.h.buf = <<>>] ELSE c
\* h.Sum: HMAC-SHA256 as an ideal MAC, determined by the key and the bytes
\* written and different for different keys or bytes
Sum(h) == [key |-> h.key, msg |-> h.buf]
\* Sign(buf): buf and chalUs go into the hash, the sum is appended, the
\* hash is reset; ev is the history record of what was signed
Sign(c, b) ==
    LET c1 == WriteToHash(WriteToHash(c, b), <<[t |-> "chal", v |-> c.chalUs]>>)
    IN  [c |-> Reset(c1),
         sig |-> Sum(c1.h),
         ev |-> [key |-> c.h.key, bytes |-> WriteToHash(c, b).h.buf, chal |-> c.chalUs,
                 sig |-> Sum(c1.h)]]
\* CheckSig once the 32 bytes are read: chalThem goes into the hash, the
\* sum is compared, the hash is reset
CheckSig(c, rsig) ==
    LET c1 == WriteToHash(c, <<[t |-> "chal", v |-> c.chalThem]>>)
    IN  [c |-> Reset(c1),
         ok |-> rsig = Sum(c1.h),
         ev |-> [key |-> c.h.key, bytes |-> c.h.buf, chal |-> c.chalThem, sig |-> rsig,
                 ok |-> rsig = Sum(c1.h)]]

\* encoding/gob of a list whose entries are told apart by a small number
\* (a result's start time, a job's id): one bit per entry; Decode fails on
\* bytes that are no gob message
RECURSIVE GobEncode(_)
GobEncode(S) ==
    IF S = {} THEN 0
    ELSE LET m == CHOOSE x \in S : \A y \in S : y <= x
         IN  2 ^ m + GobEncode(S \ {m})
GobBad == -1
GobDecode(v) == {x \in 0..(TimeWrap - 1) : (v \div (2 ^ x)) % 2 = 1}

\* the key each node was given by mgmtAddNode
KeyOf == [id \in NodeIds |-> id]

NoEv == [key |-> 0, bytes |-> <<>>, chal |-> 0, sig |-> NoSig, ok |-> FALSE]
\* the outcome of a protocol step: the connection, what was learned, the
\* frames written, the frames read, the error and the signature events
Outcome(c, err, out, used, sgn, chk) ==
    [c |-> c, err |-> err, out |-> out, used |-> used, sgn |-> sgn, chk |-> chk]

\* ------------------------------------------------------- server side steps
\* (an authClient that installs the key of the presented id before it looks
\* the node up)
authClientKeyFirst(c, inp, cat) ==
    IF Len(inp) < 1 THEN Outcome(c, "EOF", <<>>, 0, <<>>, <<>>)
    ELSE LET c1 == WriteToHash(SetKey(c, KeyOf[inp[1].v]), <<Hashed(inp[1])>>)
         IN  IF nlistFind(cat, inp[1].v) = 0
             THEN Outcome(c1, "node not found", <<>>, 1, <<>>, <<>>)
             ELSE IF Len(inp) < 2 THEN Outcome(c1, "EOF", <<>>, 1, <<>>, <<>>)
             ELSE LET k == CheckSig(c1, inp[2].s)
                  IN  IF ~k.ok THEN Outcome(k.c, "signature mismatch", <<>>, 2, <<>>, <<k.ev>>)
                      ELSE IF Len(inp) < 3 THEN Outcome(k.c, "EOF", <<>>, 2, <<>>, <<k.ev>>)
                      ELSE Outcome([k.c EXCEPT !.chalUs = inp[3].v], "", <<>>, 3, <<>>, <<k.ev>>)
\* authClient: inp is what can be read (up to three frames)
authClient(c, inp, cat) ==
    IF Len(inp) < 1 THEN Outcome(c, "EOF", <<>>, 0, <<>>, <<>>)
    ELSE IF nlistFind(cat, inp[1].v) = 0 THEN Outcome(c, "node not found", <<>>, 1, <<>>, <<>>)
    ELSE LET c1 == WriteToHash(SetKey(c, KeyOf[inp[1].v]), <<Hashed(inp[1])>>)
         IN  IF Len(inp) < 2 THEN Outcome(c1, "EOF", <<>>, 1, <<>>, <<>>)
             ELSE LET k == CheckSig(c1, inp[2].s)
                  IN  IF ~k.ok THEN Outcome(k.c, "signature mismatch", <<>>, 2, <<>>, <<k.ev>>)
                      ELSE IF Len(inp) < 3 THEN Outcome(k.c, "EOF", <<>>, 2, <<>>, <<k.ev>>)
                      ELSE Outcome([k.c EXCEPT !.chalUs = inp[3].v], "", <<>>, 3, <<>>, <<k.ev>>)

\* SendSig: refused without a hash
SendSig(c, written) ==
    IF ~c.h.set THEN Outcome(c, "protocol error", written, 0, <<>>, <<>>)
    ELSE LET s == Sign(c, <<>>)
         IN  Outcome(s.c, "", written \o <<SigItem(s.sig)>>, 0, <<s.ev>>, <<>>)

\* recvLogs up to the gob decoder: c.Write(lastSeen), c.SendSig()
recvLogsSend(c, lastSeen) ==
    SendSig(WriteToHash(c, <<[t |-> "u64", v |-> lastSeen]>>), <<Item("u64", lastSeen)>>)

\* a gob message read through Conn.Read, then CheckSig
gobThenSig(c, inp) ==
    IF Len(inp) < 1 THEN Outcome(c, "EOF", <<>>, 0, <<>>, <<>>)
    ELSE LET c1 == WriteToHash(c, <<Hashed(inp[1])>>)
         IN  IF inp[1].v = GobBad THEN Outcome(c1, "gob", <<>>, 1, <<>>, <<>>)
             ELSE IF Len(inp) < 2 THEN Outcome(c1, "EOF", <<>>, 1, <<>>, <<>>)
             ELSE LET k == CheckSig(c1, inp[2].s)
                  IN  Outcome(k.c, IF k.ok THEN "" ELSE "signature mismatch", <<>>, 2,
                              <<>>, <<k.ev>>)

\* sendJobs: gob.NewEncoder(c).Encode(d.n.jobs), c.SendSig()
sendJobs(c, js) ==
    SendSig(WriteToHash(c, <<[t |-> "gob", v |-> GobEncode(js)]>>),
            <<Item("gob", GobEncode(js))>>)

\* recvBye: ReadByte, the byte must be 0, CheckSig
recvBye(c, inp) ==
    IF Len(inp) < 1 THEN Outcome(c, "EOF", <<>>, 0, <<>>, <<>>)
    ELSE LET c1 == WriteToHash(c, <<Hashed(inp[1])>>)
         IN  IF inp[1].v # 0 THEN Outcome(c1, "protocol error", <<>>, 1, <<>>, <<>>)
             ELSE IF Len(inp) < 2 THEN Outcome(c1, "EOF", <<>>, 1, <<>>, <<>>)
             ELSE LET k == CheckSig(c1, inp[2].s)
                  IN  Outcome(k.c, IF k.ok THEN "" ELSE "signature mismatch", <<>>, 2,
                              <<>>, <<k.ev>>)

\* --------------------------------------------------------- node side steps
\* uint64 subtraction
sub64(a, b) == (a - b + TimeWrap) % TimeWrap

\* recvGreet: the greeting is read through Conn.Read (and hashed), compared,
\* then ReceiveChallenge
recvGreet(c, inp) ==
    IF Len(inp) < 1 THEN Outcome(c, "EOF", <<>>, 0, <<>>, <<>>)
    ELSE LET c1 == WriteToHash(c, <<Hashed(inp[1])>>)
         IN  IF inp[1].v # 0 THEN Outcome(c1, "protocol error", <<>>, 1, <<>>, <<>>)
             ELSE IF Len(inp) < 2 THEN Outcome(c1, "EOF", <<>>, 1, <<>>, <<>>)
             ELSE Outcome([c1 EXCEPT !.chalUs = inp[2].v], "", <<>>, 2, <<>>, <<>>)

\* auth: s.Reset(), Sign(ids), SendChallenge
auth(c, id, chal) ==
    LET s == Sign(Reset(c), <<[t |-> "ids", v |-> id]>>)
    IN  Outcome([s.c EXCEPT !.chalThem = chal], "",
                <<Item("ids", id), SigItem(s.sig), Item("chal", chal)>>, 0, <<s.ev>>, <<>>)

\* `if then > now { return nil, errFuture }`
inFutureNever(then, now) == FALSE
inFuture(then, now) == then > now

\* the limit handed to deleteResults
deleteTillMax(then, now) == IF then > sub64(now, TwoHours) THEN then ELSE sub64(now, TwoHours)
deleteTill(then, now) == IF then > sub64(now, TwoHours) THEN sub64(now, TwoHours) ELSE then
loadResults(db, from) == {x \in db : x >= from}
deleteResults(db, till) == {x \in db : ~(x < till)}

\* sendLogs; res is the step's effect on the results table: what was
\* sent and what is left
sendLogs(c, inp, now, db) ==
    LET none == [sent |-> {}, left |-> db, ran |-> FALSE]
    IN  IF Len(inp) < 1 THEN [o |-> Outcome(c, "EOF", <<>>, 0, <<>>, <<>>), res |-> none]
        ELSE LET c1 == WriteToHash(c, <<Hashed(inp[1])>>)
                 then == inp[1].v
             IN  IF inFuture(then, now)
                 THEN [o |-> Outcome(c1, "timestamp in the future", <<>>, 1, <<>>, <<>>),
                       res |-> none]
                 ELSE IF Len(inp) < 2
                 THEN [o |-> Outcome(c1, "EOF", <<>>, 1, <<>>, <<>>), res |-> none]
                 ELSE LET k == CheckSig(c1, inp[2].s)
                          ra == loadResults(db, then)
                          c2 == WriteToHash(k.c, <<[t |-> "gob", v |-> GobEncode(ra)]>>)
                          s == SendSig(c2, <<Item("gob", GobEncode(ra))>>)
                      IN  IF ~k.ok
                          THEN [o |-> Outcome(k.c, "signature mismatch", <<>>, 2, <<>>, <<k.ev>>),
                                res |-> none]
                          ELSE [o |-> Outcome(s.c, s.err, s.out, 2, s.sgn, <<k.ev>>),
                                res |-> [sent |-> ra,
                                         left |-> deleteResults(db, deleteTill(then, now)),
                                         ran |-> TRUE]]

\* sendBye: s.Write([]byte{0}), s.SendSig()
sendBye(c) == SendSig(WriteToHash(c, <<[t |-> "byte", v |-> 0]>>), <<Item("byte", 0)>>)

\* -------------------------------------------------------- session actions
\* `if err != nil { ...; return }` in handle
sessionOkAlways(err) == TRUE
sessionOk(err) == err = ""

Chals == 1..MaxChal
SrvClock == {MaxSrvClock}
coreUntouched == <<nodes, jobs, diffBuf, diffLen, resBuf, resLen, panicked, pc, committing,
                   schedReq, commitReq, commitDone, tasks, sess, nops, nsess, last,
                   linkBase, missed, schedX, timerX, mergeX, otherX>>

srvOver == srv.step \in {"ok", "err", "applied", "closed"}
nodOver == nod.step \in {"ok", "err"}
\* a read returns: the frames are there, or the connection is gone
canRead(q, need, peerOver) == Len(q) >= need \/ peerOver \/ wire.cut
Front(q, need) == SubSeq(q, 1, IF Len(q) < need THEN Len(q) ELSE need)
Drop(q, used) == SubSeq(q, used + 1, Len(q))

\* the server's step chain moves on, or stops at the error
srvAfter(o, next) ==
    [srv EXCEPT !.c = o.c, !.err = o.err,
                !.step = IF o.err = "" THEN next ELSE "err",
                !.passed = IF o.err = "" THEN Append(@, srv.step) ELSE @]
nodAfter(o, next) ==
    [nod EXCEPT !.c = o.c, !.err = o.err, !.step = IF o.err = "" THEN next ELSE "err"]
\* history of the signatures made and checked
sigsAfter(who, o) ==
    [sigs EXCEPT !.signed[who] = IF o.sgn = <<>> THEN @ ELSE o.sgn[1],
                 !.chk = IF o.chk = <<>> THEN <<>> ELSE <<[by |-> who, ev |-> o.chk[1]]>>,
                 !.nchk = IF o.chk = <<>> THEN @ ELSE @ + 1,
                 !.nbad = IF o.chk # <<>> /\ ~o.chk[1].ok THEN @ + 1 ELSE @]

SrvSendGreet(ch) ==
    /\ srv.step = "sendGreet"
    /\ srv' = [srv EXCEPT !.c.chalThem = ch, !.step = "authClient",
                          !.passed = Append(@, "sendGreet")]
    /\ wire' = [wire EXCEPT !.toNode = @ \o <<Item("greet", 0), Item("chal", ch)>>]
    /\ sigs' = [sigs EXCEPT !.chk = <<>>]
    /\ UNCHANGED <<nod, ndb, coreUntouched>>

SrvAuthClient ==
    /\ srv.step = "authClient"
    /\ canRead(wire.toSrv, 3, nodOver)
    /\ \E o \in {authClient(srv.c, Front(wire.toSrv, 3), nodes)} :
          /\ srv' = [srvAfter(o, "recvLogs") EXCEPT
                        !.n = IF o.err = ""
                              THEN <<copyNode(nodes[nlistFind(nodes, wire.toSrv[1].v)])>>
                              ELSE @]
          /\ wire' = [wire EXCEPT !.toSrv = Drop(@, o.used)]
          /\ sigs' = sigsAfter("srv", o)
    /\ UNCHANGED <<nod, ndb, coreUntouched>>

\* recvLogs as far as the gob decoder, which waits for the node
SrvRecvLogsSend(t) ==
    /\ srv.step = "recvLogs"
    /\ \E o \in {recvLogsSend(srv.c, srv.n[1].lastSeen)} :
          /\ srv' = [srv EXCEPT !.c = o.c, !.err = o.err,
                                !.step = IF o.err = "" THEN "recvLogs2" ELSE "err",
                                !.n[1].lastSeen = IF o.err = "" THEN t ELSE @]
          /\ wire' = [wire EXCEPT !.toNode = @ \o o.out]
          /\ sigs' = sigsAfter("srv", o)
    /\ UNCHANGED <<nod, ndb, coreUntouched>>

\* the rest of recvLogs: Decode(&d.r), nodeId set in each result, CheckSig
SrvRecvLogsRecv ==
    /\ srv.step = "recvLogs2"
    /\ canRead(wire.toSrv, 2, nodOver)
    /\ \E o \in {gobThenSig(srv.c, Front(wire.toSrv, 2))} :
          /\ srv' = [srv EXCEPT
                        !.c = o.c, !.err = o.err,
                        !.step = IF o.err = "" THEN "sendJobs" ELSE "err",
                        !.passed = IF o.err = "" THEN Append(@, "recvLogs") ELSE @,
                        !.r = IF o.used >= 1 /\ wire.toSrv[1].v # GobBad
                              THEN [k \in 1..Cardinality(GobDecode(wire.toSrv[1].v)) |->
                                       [nodeId |-> srv.n[1].id,
                                        Start |-> SortedIds(GobDecode(wire.toSrv[1].v))[k]]]
                              ELSE @]
          /\ wire' = [wire EXCEPT !.toSrv = Drop(@, o.used)]
          /\ sigs' = sigsAfter("srv", o)
    /\ UNCHANGED <<nod, ndb, coreUntouched>>

SrvSendJobs ==
    /\ srv.step = "sendJobs"
    /\ \E o \in {sendJobs(srv.c, Range(srv.n[1].jobs))} :
          /\ srv' = srvAfter(o, "recvBye")
          /\ wire' = [wire EXCEPT !.toNode = @ \o o.out]
          /\ sigs' = sigsAfter("srv", o)
    /\ UNCHANGED <<nod, ndb, coreUntouched>>

SrvRecvBye ==
    /\ srv.step = "recvBye"
    /\ canRead(wire.toSrv, 2, nodOver)
    /\ \E o \in {recvBye(srv.c, Front(wire.toSrv, 2))} :
          /\ srv' = srvAfter(o, "ok")
          /\ wire' = [wire EXCEPT !.toSrv = Drop(@, o.used)]
          /\ sigs' = sigsAfter("srv", o)
    /\ UNCHANGED <<nod, ndb, coreUntouched>>

\* handle after the step loop: on an error log and return, else the three
\* calls, which SessNodeSeen.. carry out
SrvHandleEnd ==
    /\ srv.step \in {"ok", "err"}
    /\ sess.pc = "idle"
    /\ srv' = [srv EXCEPT !.step = IF sessionOk(srv.err) THEN "applied" ELSE "closed"]
    /\ sess' = IF sessionOk(srv.err) THEN [pc |-> "seen", n |-> srv.n, r |-> srv.r] ELSE sess
    /\ sigs' = [sigs EXCEPT !.chk = <<>>]
    /\ UNCHANGED <<nod, wire, ndb, nodes, jobs, diffBuf, diffLen, resBuf, resLen, panicked,
                   pc, committing, schedReq, commitReq, commitDone, tasks, nops, nsess,
                   last, linkBase, missed, schedX, timerX, mergeX, otherX>>

NodRecvGreet ==
    /\ nod.step = "recvGreet"
    /\ canRead(wire.toNode, 2, srvOver)
    /\ \E o \in {recvGreet(nod.c, Front(wire.toNode, 2))} :
          /\ nod' = nodAfter(o, "auth")
          /\ wire' = [wire EXCEPT !.toNode = Drop(@, o.used)]
          /\ sigs' = sigsAfter("nod", o)
    /\ UNCHANGED <<srv, ndb, coreUntouched>>

NodAuth(ch) ==
    /\ nod.step = "auth"
    /\ \E o \in {auth(nod.c, nod.id, ch)} :
          /\ nod' = nodAfter(o, "sendLogs")
          /\ wire' = [wire EXCEPT !.toSrv = @ \o o.out]
          /\ sigs' = sigsAfter("nod", o)
    /\ UNCHANGED <<srv, ndb, coreUntouched>>

NodSendLogs ==
    /\ nod.step = "sendLogs"
    /\ canRead(wire.toNode, 2, srvOver)
    /\ \E x \in {sendLogs(nod.c, Front(wire.toNode, 2), nod.now, ndb.results)} :
          /\ nod' = [nodAfter(x.o, "recvJobs") EXCEPT
                        !.then = IF x.o.used >= 1 THEN <<wire.toNode[1].v>> ELSE @]
          /\ wire' = [wire EXCEPT !.toNode = Drop(@, x.o.used), !.toSrv = @ \o x.o.out]
          /\ ndb' = [ndb EXCEPT !.results = x.res.left, !.sent = x.res.sent,
                                !.delivered = x.res.ran]
          /\ sigs' = sigsAfter("nod", x.o)
    /\ UNCHANGED <<srv, coreUntouched>>

\* (a recvJobs that calls mergeJobs once the list is decoded, before CheckSig)
mergedBeforeCheck(o, inp, old) ==
    IF o.used >= 1 /\ o.err # "gob" THEN GobDecode(inp[1].v) ELSE old
\* the node's job table after recvJobs: mergeJobs(newjobs) is reached when
\* Decode and CheckSig returned no error
merged(o, inp, old) == IF o.err = "" THEN GobDecode(inp[1].v) ELSE old

\* recvJobs: Decode(&newjobs), CheckSig, mergeJobs(newjobs)
NodRecvJobs ==
    /\ nod.step = "recvJobs"
    /\ canRead(wire.toNode, 2, srvOver)
    /\ \E o \in {gobThenSig(nod.c, Front(wire.toNode, 2))} :
          /\ nod' = nodAfter(o, "sendBye")
          /\ wire' = [wire EXCEPT !.toNode = Drop(@, o.used)]
          /\ ndb' = [ndb EXCEPT !.jobs = merged(o, Front(wire.toNode, 2), @)]
          /\ sigs' = sigsAfter("nod", o)
    /\ UNCHANGED <<srv, coreUntouched>>

NodSendBye ==
    /\ nod.step = "sendBye"
    /\ \E o \in {sendBye(nod.c)} :
          /\ nod' = nodAfter(o, "ok")
          /\ wire' = [wire EXCEPT !.toSrv = @ \o o.out]
          /\ sigs' = sigsAfter("nod", o)
    /\ UNCHANGED <<srv, ndb, coreUntouched>>

\* the network changes one frame in flight, once: a signature becomes
\* another 32 bytes, a gob message garbage or another message, any other
\* field another value
Altered(it, how) ==
    IF it.t = "sig" THEN [it EXCEPT !.s = NoSig]
    ELSE IF it.t = "gob"
         THEN [it EXCEPT !.v = IF how = 1 THEN GobBad
                               ELSE IF it.v % 2 = 1 THEN it.v - 1 ELSE it.v + 1]
    ELSE IF it.t = "chal" \/ it.t = "ids" THEN [it EXCEPT !.v = IF it.v = 1 THEN 2 ELSE 1]
    ELSE IF it.t = "u64" THEN [it EXCEPT !.v = IF how = 1 THEN (it.v + 1) % TimeWrap
                                               ELSE sub64(it.v, 1)]
    ELSE [it EXCEPT !.v = 1]

Tamper(dir, i, how) ==
    /\ ~wire.tampered /\ ~wire.cut
    /\ i <= Len(wire[dir])
    /\ wire' = [wire EXCEPT ![dir][i] = Altered(@, how), !.tampered = TRUE]
    /\ sigs' = [sigs EXCEPT !.chk = <<>>]
    /\ UNCHANGED <<srv, nod, ndb, coreUntouched>>

\* the connection breaks; the last frame sent by one side is lost
Cut(dir) ==
    /\ ~wire.tampered /\ ~wire.cut
    /\ wire[dir] # <<>>
    /\ ~srvOver /\ ~nodOver
    /\ wire' = [wire EXCEPT ![dir] = SubSeq(@, 1, Len(@) - 1), !.cut = TRUE]
    /\ sigs' = [sigs EXCEPT !.chk = <<>>]
    /\ UNCHANGED <<srv, nod, ndb, coreUntouched>>

\* the rows of running at start-up
SessRows == <<<<0, 1>>, <<2, 1>>>>
\* the catalog holds nodes 1 and 2, node 1 runs jobs 0 and 2; the node
\* presents some id and some key, its table holds a result for every hour
InitSess ==
    /\ \E ls \in 0..(TimeWrap - 1) :
          LET st == loadRunning([nodes |-> loadNodes({1, 2}),
                                 jobs |-> loadJobs(JobIds, [x \in JobIds |-> <<1, 1>>]),
                                 dbuf |-> <<>>, dlen |-> 0, ok |-> TRUE], SessRows)
          IN  /\ nodes = [st.nodes EXCEPT ![1].lastSeen = ls]
              /\ jobs = st.jobs
    /\ SrvRest
    /\ srv = [step |-> "sendGreet", err |-> "", c |-> NewConn, n |-> <<>>, r |-> <<>>,
              passed |-> <<>>]
    /\ \E id \in NodeIds, key \in {KeyOf[1], KeyOf[2]}, now \in 0..(TimeWrap - 1) :
          nod = [step |-> "recvGreet", err |-> "", c |-> SetKey(NewConn, key), id |-> id,
                 key |-> key, now |-> now, then |-> <<>>]
    /\ wire = [toNode |-> <<>>, toSrv |-> <<>>, tampered |-> FALSE, cut |-> FALSE]
    /\ ndb = [results |-> 0..(TimeWrap - 1), jobs |-> {1}, sent |-> {}, delivered |-> FALSE]
    /\ sigs = [signed |-> [srv |-> NoEv, nod |-> NoEv], chk |-> <<>>, nchk |-> 0, nbad |-> 0]
    /\ ExtOffExcept("sess")

NextSess ==
    \/ \E ch \in Chals : SrvSendGreet(ch)
    \/ SrvAuthClient
    \/ \E t \in SrvClock : SrvRecvLogsSend(t)
    \/ SrvRecvLogsRecv
    \/ SrvSendJobs
    \/ SrvRecvBye
    \/ SrvHandleEnd
    \/ OpNodeSeen
    \/ OpAddResults
    \/ SessRequestCommit
    \/ NodRecvGreet
    \/ \E ch \in Chals : NodAuth(ch)
    \/ NodSendLogs
    \/ NodRecvJobs
    \/ NodSendBye
    \/ \E dir \in {"toNode", "toSrv"}, i \in 1..3, how \in 1..2 : Tamper(dir, i, how)
    \/ \E dir \in {"toNode", "toSrv"} : Cut(dir)

SpecSess == InitSess /\ [][NextSess]_vars

\* ------------------------------------------------------ session properties
AllSteps == <<"sendGreet", "authClient", "recvLogs", "sendJobs", "recvBye">>
dataCore == <<nodes, jobs, diffBuf, diffLen, resBuf, resLen, commitReq>>

\* C14: the data core (catalog, diff log, results, commit requests) changes
\* during a session only after handle found no error, the five steps having
\* completed in their order; a session that failed at any step leaves it as
\* it was
C14_EffectsOnlyOnSuccess ==
    /\ [](srv.step \in {"err", "closed"} =>
             /\ sess.pc = "idle"
             /\ diffLen = 0 /\ resLen = 0 /\ commitReq = 0)
    /\ [](sess.pc # "idle" => (srv.err = "" /\ srv.passed = AllSteps))
    /\ [][dataCore' # dataCore =>
             /\ srv.step = "applied"
             /\ srv.err = ""
             /\ srv.passed = AllSteps]_vars

\* a session that received its batch and failed at the final signature
\* has ended, and nothing was applied
C14_Witness ==
    /\ srv.step = "closed"
    /\ srv.err = "signature mismatch"
    /\ srv.passed = SubSeq(AllSteps, 1, 4)
    /\ srv.r # <<>>
    /\ resLen = 0 /\ commitReq = 0

\* the two ends of the session
Peer(who) == IF who = "srv" THEN "nod" ELSE "srv"
HashOf(who) == IF who = "srv" THEN srv.c.h ELSE nod.c.h
Honest == ~wire.tampered /\ nod.key = KeyOf[nod.id] /\ nlistFind(nodes, nod.id) # 0

\* C15: a CheckSig accepts exactly when its key, the bytes it hashed, its
\* challenge and the signature it read are those of the peer's Sign; in a
\* session with the right key and unaltered frames every CheckSig accepts;
\* after each Sign and CheckSig the hash is empty again
C15_SessionSymmetry ==
    /\ \A k \in 1..Len(sigs.chk) :
          LET e == sigs.chk[k].ev
              p == sigs.signed[Peer(sigs.chk[k].by)]
          IN  /\ e.ok <=> (e.key = p.key /\ e.bytes = p.bytes /\ e.chal = p.chal
                           /\ e.sig = p.sig)
              /\ HashOf(sigs.chk[k].by).buf = <<>>
    /\ Honest => sigs.nbad = 0
    /\ (Honest /\ ~wire.cut /\ srvOver /\ nodOver) =>
          ((srv.err = "" /\ nod.err = "") \/ nod.err = "timestamp in the future")
    /\ srv.step \in {"recvLogs", "recvLogs2", "sendJobs", "recvBye", "ok"} => srv.c.h.buf = <<>>
    /\ nod.step \in {"sendLogs", "recvJobs", "sendBye", "ok"} => nod.c.h.buf = <<>>

\* both ends completed a session in which all five signatures were checked
C15_Witness ==
    /\ srv.step = "ok" /\ nod.step = "ok"
    /\ sigs.nchk = 5 /\ sigs.nbad = 0

\* C16: when the lastSeen read by sendLogs is later than the node's clock
\* the session ends with the future-timestamp error, and the node has sent
\* no results, deleted none and kept its job list
C16_FutureTimestampAborts ==
    (nod.then # <<>> /\ nod.then[1] > nod.now) =>
        /\ nod.step = "err"
        /\ nod.err = "timestamp in the future"
        /\ ndb.sent = {} /\ ~ndb.delivered
        /\ \A k \in 1..Len(wire.toSrv) : wire.toSrv[k].t # "gob"
        /\ srv.r = <<>>
        /\ ndb.results = 0..(TimeWrap - 1)
        /\ ndb.jobs = {1}

\* the server's own record of the node is ahead of the node's clock
C16_Witness ==
    /\ nod.err = "timestamp in the future"
    /\ ~wire.tampered
    /\ srvOver

Min(a, b) == IF a < b THEN a ELSE b
Max(a, b) == IF a < b THEN b ELSE a
AllResults == 0..(TimeWrap - 1)

\* C17 (as the code has it): once sendLogs has delivered the batch, the
\* results left in the table are exactly those not older than
\* min(lastSeen, now - 2h); while the clock is within two hours of the
\* epoch the limit is lastSeen
C17_DeletesOlderThanMin ==
    ndb.delivered =>
        /\ nod.now >= TwoHours =>
              ndb.results = {x \in AllResults : ~(x < Min(nod.then[1], nod.now - TwoHours))}
        /\ nod.now < TwoHours =>
              ndb.results = {x \in AllResults : ~(x < nod.then[1])}
        /\ ndb.sent = {x \in AllResults : x >= nod.then[1]}

\* a delivery after which the results older than lastSeen are gone and
\* results older than now - 2h are still there
C17_Witness ==
    /\ ndb.delivered
    /\ nod.then[1] >= 1
    /\ nod.now - TwoHours > nod.then[1]
    /\ ndb.results = {x \in AllResults : x >= nod.then[1]}

\* C17 as stated: the results left are those not older than
\* max(lastSeen, now - 2h)
C17_DeletesOlderThanMax ==
    (ndb.delivered /\ nod.now >= TwoHours) =>
        ndb.results = {x \in AllResults : ~(x < Max(nod.then[1], nod.now - TwoHours))}

\* ================================================ node job timer (sched.go)
\* Time is counted in half milliseconds.
Periods == MinPeriod..MaxPeriod
Runs == {1, MaxRun}
\* Go's %: the remainder has the sign of the dividend
goMod(a, b) == IF a >= 0 THEN a % b ELSE 0 - ((0 - a) % b)
\* New: start := period - (nanonow-offset)%period, a period more if
\* that is under a millisecond
startDelay(period, offset, nanonow) ==
    IF period - goMod(nanonow - offset, period) < Millisecond
    THEN period - goMod(nanonow - offset, period) + period
    ELSE period - goMod(nanonow - offset, period)

\* s.headShot is unbuffered: the send in Stop completes when the thread
\* is at one of its two selects
rendezvousAnytime(p) == TRUE
rendezvous(p) == p \in {"sleep", "wait"}

notTimer == <<srvVars, schedX, sessX, mergeX, otherX>>

\* f() is entered; it will take d
enterF(d) ==
    /\ fired' = Append(fired, clk)
    /\ tm' = [tm EXCEPT !.pc = "run", !.end = clk + d, !.active = @ + 1,
                        !.next = IF tm.pc = "sleep" THEN clk + tm.period ELSE @,
                        !.buf = 0]

\* case <-time.After(start): ticker := time.NewTicker(period), first f()
WakeUp(d) ==
    /\ tm.pc = "sleep" /\ clk = tm.wake
    /\ enterF(d)
    /\ UNCHANGED <<clk, stop, notTimer>>

\* f() returns; the thread is at the select of the loop
FReturn ==
    /\ tm.pc = "run" /\ clk = tm.end
    /\ tm' = [tm EXCEPT !.pc = "wait", !.active = @ - 1]
    /\ UNCHANGED <<clk, stop, fired, notTimer>>

\* case <-ticker.C: next f()
TickCase(d) ==
    /\ tm.pc = "wait" /\ tm.buf = 1
    /\ enterF(d)
    /\ UNCHANGED <<clk, stop, notTimer>>

\* Stop is called (once)
StopCall ==
    /\ stop.st = "idle"
    /\ stop' = [st |-> "sending", waited |-> tm.pc = "run"]
    /\ UNCHANGED <<tm, clk, fired, notTimer>>

\* case <-s.headShot in either select: the thread returns (stopping the
\* ticker), and Stop returns
HeadShotCase ==
    /\ stop.st = "sending"
    /\ rendezvous(tm.pc)
    /\ stop' = [stop EXCEPT !.st = "returned"]
    /\ tm' = [tm EXCEPT !.pc = IF tm.pc \in {"sleep", "wait"} THEN "dead" ELSE @]
    /\ UNCHANGED <<clk, fired, notTimer>>

\* time passes when the thread has nothing to do at this instant; the
\* ticker sends on its channel of capacity 1 every period and drops the
\* tick when the channel is full
Advance ==
    /\ clk < MaxClock
    /\ ~(tm.pc = "sleep" /\ clk = tm.wake)
    /\ ~(tm.pc = "run" /\ clk = tm.end)
    /\ ~(tm.pc = "wait" /\ tm.buf = 1)
    /\ ~(stop.st = "sending" /\ tm.pc \in {"sleep", "wait"})
    /\ clk' = clk + 1
    /\ tm' = IF tm.pc \in {"run", "wait"} /\ tm.next = clk + 1
             THEN [tm EXCEPT !.buf = 1, !.next = @ + tm.period]
             ELSE tm
    /\ UNCHANGED <<stop, fired, notTimer>>

\* sched.New at any time not before the offset
InitTimer ==
    /\ nodes = <<>> /\ jobs = <<>>
    /\ SrvRest
    /\ \E p \in Periods, s \in 0..MaxOffset, now \in MaxOffset..MaxNow :
          /\ tm = [pc |-> "sleep", wake |-> now + startDelay(p, s, now), period |-> p,
                   offset |-> s, now0 |-> now, next |-> 0, buf |-> 0, end |-> 0,
                   active |-> 0]
          /\ clk = now
    /\ stop = [st |-> "idle", waited |-> FALSE]
    /\ fired = <<>>
    /\ ExtOffExcept("timer")

NextTimer ==
    \/ \E d \in Runs : WakeUp(d)
    \/ FReturn
    \/ \E d \in Runs : TickCase(d)
    \/ StopCall
    \/ HeadShotCase
    \/ Advance

SpecTimer == InitTimer /\ [][NextTimer]_vars

\* the first point of the grid that is at least a millisecond away
T0 ==
    CHOOSE t \in (tm.now0 + Millisecond)..(tm.now0 + Millisecond + tm.period - 1) :
        (t - tm.offset) % tm.period = 0

\* C18: f is started at T0, T0 + p, T0 + 2p, ... and at no other time,
\* however long its runs take
C18_TimerGrid ==
    \A k \in 1..Len(fired) : fired[k] = T0 + (k - 1) * tm.period

\* C19: Stop returns only while f is not running; once it has returned f
\* is not started again; f never runs twice at once
C19_StopWaits ==
    /\ [](tm.active <= 1)
    /\ [](stop.st = "returned" => tm.pc = "dead")
    /\ [][(stop.st # "returned" /\ stop'.st = "returned") =>
             (tm.pc # "run" /\ tm.active = 0)]_vars
    /\ [][stop.st = "returned" => fired' = fired]_vars

\* Stop was called during a run of f and returned after it
C19_Witness ==
    /\ stop.st = "returned" /\ stop.waited
    /\ Len(fired) >= 2
    /\ tm.active = 0

\* ================================================ node job list (mergeJobs)
\* A job description: Id, desc (Period, Start and Check taken together) and
\* s, the scheduler task (0 for nil).  ntasks holds the tasks that run.
BadCheck == MaxDesc
Descs == 1..MaxDesc
\* check.IsValid(j.Check)
IsValid(j) == j.desc # BadCheck
jobsEqual(a, b) == a.Id = b.Id /\ a.desc = b.desc
notMerge == <<srvVars, schedX, sessX, timerX, otherX>>

\* the first loop of mergeJobs; i and j as in the source, st is status
RECURSIVE mergeLoop(_, _, _, _, _, _)
mergeLoop(js, nw, st, i, j, upd) ==
    IF ~(i < Len(js) /\ j < Len(nw))
    THEN [jobs |-> js, newjobs |-> nw, status |-> st,
          updated |-> (upd \/ i < Len(js) \/ j < Len(nw)), ok |-> TRUE]
    ELSE IF j >= Len(js)
    THEN [jobs |-> js, newjobs |-> nw, status |-> st, updated |-> upd, ok |-> FALSE]
    ELSE IF js[i + 1].Id = js[j + 1].Id
    THEN IF jobsEqual(js[i + 1], nw[j + 1])
         THEN mergeLoop([js EXCEPT ![i + 1].s = 0], [nw EXCEPT ![j + 1].s = js[i + 1].s],
                        st, i + 1, j + 1, upd)
         ELSE mergeLoop(js, nw, [st EXCEPT ![j + 1] = IsValid(nw[j + 1])], i + 1, j + 1, TRUE)
    ELSE IF js[i + 1].Id < nw[j + 1].Id
    THEN mergeLoop(js, nw, st, i + 1, j, TRUE)
    ELSE mergeLoop(js, nw, [st EXCEPT ![j + 1] = IsValid(nw[j + 1])], i, j + 1, TRUE)

\* the second loop: the entries whose status is false are deleted
RECURSIVE dropFalse(_, _, _, _)
dropFalse(nw, st, k, j) ==
    IF k > Len(st) THEN nw
    ELSE IF st[k] THEN dropFalse(nw, st, k + 1, j + 1)
    ELSE dropFalse(RemoveAt(nw, j), st, k + 1, j)

\* killJobs: every task held by the list is stopped, its entry marked
killJobs(js, ts) ==
    [jobs |-> [k \in 1..Len(js) |-> [js[k] EXCEPT !.s = 0]],
     tasks |-> {t \in ts : \A k \in 1..Len(js) : js[k].s # t.id}]

\* startJobs: a new task for every entry without one
FreshId(ts) == IF ts = {} THEN 1 ELSE 1 + (CHOOSE x \in {t.id : t \in ts} :
                                              \A t \in ts : t.id <= x)
RECURSIVE startJobs(_, _, _)
startJobs(js, ts, k) ==
    IF k > Len(js) THEN [jobs |-> js, tasks |-> ts]
    ELSE IF js[k].s # 0 THEN startJobs(js, ts, k + 1)
    ELSE startJobs([js EXCEPT ![k].s = FreshId(ts)],
                   ts \cup {[id |-> FreshId(ts), job |-> js[k].Id]}, k + 1)

\* the list decoded from the server, after sort.Sort
NewJobs(S, f) == [k \in 1..Cardinality(S) |->
                     [Id |-> SortedIds(S)[k], desc |-> f[SortedIds(S)[k]], s |-> 0]]

\* every list the server may send: some of the jobs, in any description
NewLists == {NewJobs(S, f) : S \in SUBSET JobIds, f \in [JobIds -> Descs]}

\* mergeJobs(newjobs); dbErr: replaceJobs returns an error
MergeJobs(new, dbErr) ==
    /\ mlast.n < MaxMerges
    /\ mlast.result # "panic"
    /\ \E m \in {mergeLoop(njobs, new, [k \in 1..Len(new) |-> FALSE], 0, 0, FALSE)} :
          \E kept \in {dropFalse(m.newjobs, m.status, 1, 0)} :
             IF ~m.ok
             THEN /\ njobs' = m.jobs
                  /\ ntasks' = ntasks
                  /\ mlast' = [n |-> mlast.n + 1, new |-> new, result |-> "panic",
                               before |-> njobs]
             ELSE IF m.updated /\ dbErr
             THEN /\ njobs' = m.jobs
                  /\ ntasks' = ntasks
                  /\ mlast' = [n |-> mlast.n + 1, new |-> new, result |-> "error",
                               before |-> njobs]
             ELSE /\ njobs' = startJobs(kept, killJobs(m.jobs, ntasks).tasks, 1).jobs
                  /\ ntasks' = startJobs(kept, killJobs(m.jobs, ntasks).tasks, 1).tasks
                  /\ mlast' = [n |-> mlast.n + 1, new |-> new, result |-> "ok",
                               before |-> njobs]
    /\ UNCHANGED notMerge

\* the node after loadJobs: a list of valid jobs, each with its task
InitMerge ==
    /\ nodes = <<>> /\ jobs = <<>>
    /\ SrvRest
    /\ \E S \in SUBSET JobIds, f \in [JobIds -> Descs \ {BadCheck}] :
          /\ njobs = startJobs(NewJobs(S, f), {}, 1).jobs
          /\ ntasks = startJobs(NewJobs(S, f), {}, 1).tasks
    /\ mlast = [n |-> 0, new |-> <<>>, result |-> "init", before |-> <<>>]
    /\ ExtOffExcept("merge")

NextMerge ==
    \E new \in NewLists, dbErr \in BOOLEAN : MergeJobs(new, dbErr)

SpecMerge == InitMerge /\ [][NextMerge]_vars

\* the valid entries of a list, without their tasks
ValidOf(nw) == {<<nw[k].Id, nw[k].desc>> : k \in {x \in 1..Len(nw) : IsValid(nw[x])}}

\* C20: after a mergeJobs that completed, the job list holds exactly the
\* valid entries of the new list, every entry of the list has a running
\* task, and every running task belongs to an entry of the list
C20_MergeConservation ==
    mlast.result = "ok" =>
        /\ {<<njobs[k].Id, njobs[k].desc>> : k \in 1..Len(njobs)} = ValidOf(mlast.new)
        /\ \A k \in 1..Len(njobs) : \E t \in ntasks : t.id = njobs[k].s
        /\ \A t \in ntasks : \E k \in 1..Len(njobs) : njobs[k].s = t.id

\* the task handle a list holds for job id (0: none, or id not in the list)
TaskOf(js, id) ==
    IF \E k \in 1..Len(js) : js[k].Id = id
    THEN js[CHOOSE k \in 1..Len(js) : js[k].Id = id].s
    ELSE 0

\* the ids that the old list and the new list both hold with the same
\* Period, Start and Check
Unchanged(old, nw) ==
    {id \in JobIds : \E a \in 1..Len(old), b \in 1..Len(nw) :
        old[a].Id = id /\ jobsEqual(old[a], nw[b])}

\* C21: after a mergeJobs that completed, every job that the old and the
\* new list hold with the same description is in the list with the task
\* handle it had before, and that task is still running
C21_SameTaskKept ==
    mlast.result = "ok" =>
        \A id \in Unchanged(mlast.before, mlast.new) :
            /\ TaskOf(mlast.before, id) # 0
            /\ TaskOf(njobs, id) = TaskOf(mlast.before, id)
            /\ \E t \in ntasks : t.id = TaskOf(njobs, id) /\ t.job = id

\* C35: after a mergeJobs whose replaceJobs failed, the job list with its
\* task handles is as it was before the call, and every running task is
\* still held by a record of the list, where killJobs will find it
C35_FailedPersistKeepsState ==
    mlast.result = "error" =>
        /\ njobs = mlast.before
        /\ \A t \in ntasks : \E k \in 1..Len(njobs) : njobs[k].s = t.id /\ njobs[k].Id = t.job

\* =================================================== database gateway (stdb)
\* A handle (Rows, Row, Tx) is a position of hd; its request channel c is
\* named by the same number, 0 names db.c.  A caller is in a front-end
\* function: before the send of its request ("send"), between the send and
\* the receive of the response ("recv"), or out of it ("idle").
Callers == 1..MaxCallers
DbOps == {opClose, opExec, opQuery, opQueryRow, opBegin}
NoReq == [op |-> opClose, from |-> 0, ch |-> 0]
notDb == <<srvVars, schedX, sessX, timerX, mergeX, mg, sh, ky, pdb, ov, nr>>

\* the channel the thread receives from, by the loop it is in
Chan(w) == IF w.loop = "main" THEN 0 ELSE w.cur

\* a receive takes a request sent on the channel received from
acceptsAny(w, ch) == TRUE
accepts(w, ch) == ch = Chan(w)

\* handleQuery marks the cursor closed when it leaves its loop: after a
\* Next without a row, a Close and an invalid operation
rowsClosedNever(op, e) == FALSE
rowsClosed(op, e) == (op = opNext /\ e) \/ op \notin {opNext, opScan}

\* handleTx marks the transaction closed when it leaves its loop
txClosedNever(op) == FALSE
txClosed(op) == op \notin {opExec, opQuery}

\* calls made so far by all callers
Calls == LET RECURSIVE sum(_)
             sum(k) == IF k = 0 THEN 0 ELSE cl[k].n + sum(k - 1)
         IN sum(MaxCallers)

\* a front-end function that sends its request: req{op, c} on channel ch
sendReq(c, fn, ch, op) ==
    [cl EXCEPT ![c].pc = "send", ![c].fn = fn, ![c].ch = ch, ![c].op = op,
               ![c].n = @ + 1, ![c].ret = "", ![c].sent = TRUE]
\* a front-end function that returns at once
returnAtOnce(c, fn, ret) ==
    [cl EXCEPT ![c].fn = fn, ![c].n = @ + 1, ![c].ret = ret, ![c].sent = FALSE]
mayCall(c) == cl[c].pc = "idle" /\ Calls < MaxCalls

\* DB.Close, DB.Exec, DB.Query, DB.QueryRow, DB.Begin
DbCall(c, op) ==
    /\ mayCall(c)
    /\ cl' = sendReq(c, "DB", 0, op)
    /\ UNCHANGED <<gw, hd, notDb>>

\* the functions of a handle h: the closed flag is read first
onHandle(c, h, fn, op, closedRet) ==
    /\ mayCall(c)
    /\ h # 0
    /\ cl' = IF hd[h].closed THEN returnAtOnce(c, fn, closedRet)
             ELSE sendReq(c, fn, h, op)
    /\ UNCHANGED <<gw, hd, notDb>>

RowsNext(c) == onHandle(c, cl[c].rs, "Rows.Next", opNext, "false")
RowsScan(c) == onHandle(c, cl[c].rs, "Rows.Scan", opScan, "rows closed")
RowsClose(c) == onHandle(c, cl[c].rs, "Rows.Close", opClose, "nil")
RowScan(c) == onHandle(c, cl[c].rw, "Row.Scan", opScan, "row closed")
TxExec(c) == onHandle(c, cl[c].tx, "Tx.Exec", opExec, "tx done")
TxCommit(c) == onHandle(c, cl[c].tx, "Tx.Commit", opCommit, "tx done")
TxRollback(c) == onHandle(c, cl[c].tx, "Tx.Rollback", opRollback, "tx done")

\* a query inside a transaction: req{op: opQuery} sent on the channel of
\* an open Tx (the case of handleTx; the front end has no function for it)
TxQuery(c) ==
    /\ mayCall(c)
    /\ cl[c].tx # 0
    /\ ~hd[cl[c].tx].closed
    /\ cl' = sendReq(c, "Tx.Query", cl[c].tx, opQuery)
    /\ UNCHANGED <<gw, hd, notDb>>

\* the thread receives a request: r := <-db.c, qr := <-rs.c, qr := <-rw.c,
\* txr := <-ctx.c; the driver call it makes for it begins
DbRecv(c) ==
    /\ gw.pc = "recv"
    /\ cl[c].pc = "send"
    /\ accepts(gw, cl[c].ch)
    /\ gw' = [gw EXCEPT !.pc = "call", !.drv = @ + 1,
                        !.req = [op |-> cl[c].op, from |-> c, ch |-> cl[c].ch]]
    /\ cl' = [cl EXCEPT ![c].pc = "recv"]
    /\ UNCHANGED <<hd, notDb>>

\* the response received by the caller, and what its function returns
answer(c, ret, field, h) ==
    [cl EXCEPT ![c].pc = "idle", ![c].ret = ret,
               ![c].rs = IF field = "rs" THEN h ELSE @,
               ![c].rw = IF field = "rw" THEN h ELSE @,
               ![c].tx = IF field = "tx" THEN h ELSE @]
\* a new Rows, Row or Tx; history: by, the operation after which it was
\* marked closed, and tx, the transaction it was made in
newHandle(kind) == Append(hd, [kind |-> kind, closed |-> FALSE, by |-> <<>>, tx |-> gw.tx])
markClosed(h, closed, op) ==
    [hd EXCEPT ![h].closed = closed, ![h].by = IF closed THEN <<op>> ELSE @]
errOr(e, ret) == IF e THEN "err" ELSE ret
back(w) == [w EXCEPT !.pc = "recv", !.drv = @ - 1, !.req = NoReq]
\* return from handleTx or handleQueryRow to the main loop
toMain(w) == [back(w) EXCEPT !.loop = "main", !.cur = 0, !.tx = 0]

\* handleQuery up to its loop; e: db.dbc.Query returns an error
handleQuery(e) ==
    IF e
    THEN /\ gw' = back(gw)
         /\ cl' = answer(gw.req.from, "err", "rs", 0)
         /\ hd' = hd
    ELSE /\ gw' = [back(gw) EXCEPT !.loop = "query", !.cur = Len(hd) + 1]
         /\ cl' = answer(gw.req.from, "ok", "rs", Len(hd) + 1)
         /\ hd' = newHandle("rows")

\* a turn of the main loop of thread
mainCase(e) ==
    LET op == gw.req.op  c == gw.req.from IN
    IF op = opClose
    THEN /\ gw' = [back(gw) EXCEPT !.pc = "dead"]
         /\ cl' = answer(c, errOr(e, "ok"), "", 0)
         /\ hd' = hd
    ELSE IF op = opExec
    THEN /\ gw' = back(gw)
         /\ cl' = answer(c, errOr(e, "ok"), "", 0)
         /\ hd' = hd
    ELSE IF op = opQuery
    THEN handleQuery(e)
    ELSE IF op = opQueryRow
    THEN /\ gw' = [back(gw) EXCEPT !.loop = "row", !.cur = Len(hd) + 1]
         /\ cl' = answer(c, "ok", "rw", Len(hd) + 1)
         /\ hd' = newHandle("row")
    ELSE IF op = opBegin
    THEN IF e
         THEN /\ gw' = back(gw)
              /\ cl' = answer(c, "err", "tx", 0)
              /\ hd' = hd
         ELSE /\ gw' = [back(gw) EXCEPT !.loop = "tx", !.cur = Len(hd) + 1,
                                       !.tx = Len(hd) + 1]
              /\ cl' = answer(c, "ok", "tx", Len(hd) + 1)
              /\ hd' = newHandle("tx")
    ELSE /\ gw' = back(gw)
         /\ cl' = answer(c, "invalid", "", 0)
         /\ hd' = hd

\* a turn of the loop of handleQuery; e: rows.Next() is false, or
\* rows.Scan returns an error.  When the loop is left the deferred
\* rows.Close() is still to run
queryCase(e) ==
    LET op == gw.req.op  c == gw.req.from
        leaves == (op = opNext /\ e) \/ op \notin {opNext, opScan} IN
    /\ gw' = IF leaves THEN [back(gw) EXCEPT !.pc = "closing"] ELSE back(gw)
    /\ hd' = markClosed(gw.cur, rowsClosed(op, e), op)
    /\ cl' = IF op = opScan THEN answer(c, errOr(e, "ok"), "", 0)
             ELSE IF op = opNext THEN answer(c, IF e THEN "false" ELSE "true", "", 0)
             ELSE IF op = opClose THEN answer(c, "ok", "", 0)
             ELSE answer(c, "invalid", "", 0)

\* handleQueryRow after the receive
rowCase(e) ==
    /\ gw' = toMain(gw)
    /\ hd' = markClosed(gw.cur, TRUE, gw.req.op)
    /\ cl' = answer(gw.req.from, IF gw.req.op = opScan THEN errOr(e, "ok") ELSE "invalid", "", 0)

\* a turn of the loop of handleTx
txCase(e) ==
    LET op == gw.req.op  c == gw.req.from IN
    IF op = opQuery
    THEN handleQuery(e)
    ELSE /\ gw' = IF op = opExec THEN back(gw) ELSE toMain(gw)
         /\ hd' = markClosed(gw.cur, txClosed(op), op)
         /\ cl' = IF op \in {opExec, opCommit, opRollback}
                  THEN answer(c, errOr(e, "ok"), "", 0)
                  ELSE answer(c, "invalid", "", 0)

\* the driver call ends and the response is sent: r.c <- res{...}
DbReply(e) ==
    /\ gw.pc = "call"
    /\ CASE gw.loop = "main" -> mainCase(e)
         [] gw.loop = "query" -> queryCase(e)
         [] gw.loop = "row" -> rowCase(e)
         [] gw.loop = "tx" -> txCase(e)
    /\ UNCHANGED notDb

\* the deferred rows.Close() of handleQuery, and its return to the loop
\* that called it: handleTx when inside a transaction, else thread
DbRowsClose ==
    /\ gw.pc = "closing"
    /\ gw' = IF gw.tx # 0
             THEN [gw EXCEPT !.pc = "recv", !.loop = "tx", !.cur = gw.tx]
             ELSE [gw EXCEPT !.pc = "recv", !.loop = "main", !.cur = 0]
    /\ UNCHANGED <<cl, hd, notDb>>

\* after Open: the thread in its main loop, no handle yet
InitDb ==
    /\ nodes = <<>> /\ jobs = <<>>
    /\ SrvRest
    /\ gw = [pc |-> "recv", loop |-> "main", cur |-> 0, tx |-> 0, drv |-> 0,
             req |-> NoReq]
    /\ cl = [c \in Callers |-> [pc |-> "idle", fn |-> "", ch |-> 0, op |-> opClose,
                                rs |-> 0, rw |-> 0, tx |-> 0, ret |-> "",
                                sent |-> FALSE, n |-> 0]]
    /\ hd = <<>>
    /\ ExtOffExcept("db")

NextDb ==
    \/ \E c \in Callers, op \in DbOps : DbCall(c, op)
    \/ \E c \in Callers : RowsNext(c)
    \/ \E c \in Callers : RowsScan(c)
    \/ \E c \in Callers : RowsClose(c)
    \/ \E c \in Callers : RowScan(c)
    \/ \E c \in Callers : TxExec(c)
    \/ \E c \in Callers : TxCommit(c)
    \/ \E c \in Callers : TxRollback(c)
    \/ \E c \in Callers : TxQuery(c)
    \/ \E c \in Callers : DbRecv(c)
    \/ \E e \in BOOLEAN : DbReply(e)
    \/ DbRowsClose

SpecDb == InitDb /\ [][NextDb]_vars

\* ------------------------------------------------------ gateway properties
RowsFns == {"Rows.Next", "Rows.Scan", "Rows.Close"}
TxFns == {"Tx.Exec", "Tx.Commit", "Tx.Rollback"}
\* caller c makes a call in this step
calls(c) == cl'[c].n = cl[c].n + 1
\* the thread waits for, or executes, a request of handle h
lockedOn(h) == gw.pc \in {"recv", "call"} /\ gw.loop # "main" /\ gw.cur = h

\* C22: the thread makes at most one driver call at a time and executes
\* one request at a time; every handle that is open has the thread inside
\* its handler; the request the thread takes while a cursor, row or
\* transaction is open was sent on the channel of that handle, never on
\* db.c or on another handle's channel
C22_GatewayExclusive ==
    /\ [](gw.drv <= 1)
    /\ [](\A c \in Callers : cl[c].pc = "recv" => (gw.pc = "call" /\ gw.req.from = c))
    /\ [](\A h \in 1..Len(hd) : ~hd[h].closed => h \in {gw.cur, gw.tx})
    /\ [](gw.loop # "main" /\ gw.pc \in {"recv", "call"} => ~hd[gw.cur].closed)
    /\ [][gw.pc = "recv" /\ gw'.pc = "call" => gw'.req.ch = Chan(gw)]_vars

\* a caller waits to send on db.c while the thread serves the cursor of
\* another caller, who has got a row from it
C22_Witness ==
    \E c, d \in Callers :
        /\ cl[c].pc = "send" /\ cl[c].ch = 0
        /\ cl[d].pc = "idle" /\ cl[d].fn = "Rows.Next" /\ cl[d].ret = "true"
        /\ lockedOn(cl[d].rs)

\* C23: when Rows.Next has returned false the cursor is marked closed and
\* the thread no longer waits on the cursor's channel; a Next, Scan or
\* Close on a closed cursor returns at once (false, the closed error, nil)
\* without a request and without a step of the thread; no caller is ever
\* left sending on the channel of a closed cursor
C23_NextFalseCloses ==
    /\ [](\A c \in Callers :
            (cl[c].pc = "idle" /\ cl[c].fn = "Rows.Next" /\ cl[c].ret = "false") =>
                (hd[cl[c].rs].closed /\ ~lockedOn(cl[c].rs)))
    /\ [](\A c \in Callers :
            (cl[c].pc = "send" /\ cl[c].fn \in RowsFns) => ~hd[cl[c].ch].closed)
    /\ [][\A c \in Callers :
            (calls(c) /\ cl'[c].fn \in RowsFns /\ hd[cl[c].rs].closed) =>
                /\ cl'[c].pc = "idle" /\ ~cl'[c].sent /\ gw' = gw
                /\ cl'[c].ret = (CASE cl'[c].fn = "Rows.Next" -> "false"
                                   [] cl'[c].fn = "Rows.Scan" -> "rows closed"
                                   [] cl'[c].fn = "Rows.Close" -> "nil")]_vars

\* a cursor closed by a Next without a row; its holder's later Scan has
\* returned the closed error at once, and the thread is in its main loop
C23_Witness ==
    \E c \in Callers :
        /\ cl[c].fn = "Rows.Scan" /\ cl[c].ret = "rows closed" /\ ~cl[c].sent
        /\ hd[cl[c].rs].by = <<opNext>>
        /\ gw.pc = "recv" /\ gw.loop = "main"

\* C24: a Commit or Rollback that the thread executes takes it back to the
\* main loop and leaves the Tx marked closed; an Exec, Commit or Rollback
\* on a closed Tx returns the transaction-done error at once without a
\* request; when a cursor made inside a transaction is closed the thread
\* goes back to the loop of that transaction
C24_TxDone ==
    /\ [][(gw' # gw /\ gw.pc = "call" /\ gw.loop = "tx" /\ gw.req.op \in {opCommit, opRollback}) =>
             (gw'.pc = "recv" /\ gw'.loop = "main" /\ hd'[gw.cur].closed)]_vars
    /\ [](\A c \in Callers :
            (cl[c].pc = "idle" /\ cl[c].fn \in {"Tx.Commit", "Tx.Rollback"}) =>
                (hd[cl[c].tx].closed /\ ~lockedOn(cl[c].tx)))
    /\ [][\A c \in Callers :
            (calls(c) /\ cl'[c].fn \in TxFns /\ hd[cl[c].tx].closed) =>
                (cl'[c].pc = "idle" /\ ~cl'[c].sent /\ cl'[c].ret = "tx done" /\ gw' = gw)]_vars
    /\ [][(gw' # gw /\ gw.pc = "closing" /\ gw.tx # 0) =>
             (gw'.pc = "recv" /\ gw'.loop = "tx" /\ gw'.cur = gw.tx /\ ~hd[gw.tx].closed)]_vars

\* a transaction with a query inside it, committed; the Rollback that
\* followed the Commit has returned the transaction-done error at once
C24_Witness ==
    \E c \in Callers :
        /\ cl[c].fn = "Tx.Rollback" /\ cl[c].ret = "tx done" /\ ~cl[c].sent
        /\ hd[cl[c].tx].by = <<opCommit>>
        /\ cl[c].rs # 0 /\ hd[cl[c].rs].tx = cl[c].tx /\ hd[cl[c].rs].closed
        /\ gw.pc = "recv" /\ gw.loop = "main"

\* ============================== main and the connection handlers (SpecMgmt)
\* Every connection is a goroutine of its own (go handler(c) in netLoop).
\* A handler asks the loop for a copy (getNode, getJob: "asked"), gets its
\* answer ("got") and later sends its operation on opChan; mgmtList reads
\* the catalogs itself.  main serves until a signal, then runs its deferred
\* functions.
Conns == 1..MaxConns
Cmds == {"rmnode", "rmjob", "seen"}
MgmtNodeIds == 1..2
MgmtJobIds == 0..1
MgmtRows == <<<<0, 1>>>>
IdleConn == [pc |-> "idle", cmd |-> "", id |-> 0, late |-> FALSE,
             out |-> [nodes |-> <<>>, jobs |-> <<>>, jobsThen |-> <<>>]]
notCore == <<committing, schedReq, commitReq, commitDone, tasks, sess, nsess,
             linkBase, missed, schedX, sessX, timerX, mergeX, dbX, sh, ky, pdb, ov, nr>>

\* netLoop accepts a connection and its handler sends the request for a
\* copy: mgmtRmNode and authClient call getNode, mgmtRmJob calls getJob
\* (the channels hold 5 requests, more than there are handlers)
MgmtAccept(c, cmd, id) ==
    /\ mg.main = "serving"
    /\ mg.conn[c].pc = "idle"
    /\ nops < MaxCmds
    /\ id \in (IF cmd = "rmjob" THEN MgmtJobIds ELSE MgmtNodeIds)
    /\ mg' = [mg EXCEPT !.conn[c] = [IdleConn EXCEPT !.pc = "asked", !.cmd = cmd,
                                                     !.id = id, !.late = (pc # "run")]]
    /\ nops' = nops + 1
    /\ UNCHANGED <<dataVars, pc, last, notCore>>

\* doGetNode, doGetJob: is the id in the catalog
known(cmd, id) ==
    IF cmd = "rmjob" THEN jlistFind(jobs, id) # 0 ELSE nlistFind(nodes, id) # 0

\* case r := <-nodeReqChan, case r := <-jobReqChan: the loop answers; on
\* nil the handler answers 550 (a session: unknown node) and ends
LoopGet(c) ==
    /\ pc = "run"
    /\ mg.conn[c].pc = "asked"
    /\ mg' = [mg EXCEPT !.conn[c] =
                 IF known(mg.conn[c].cmd, mg.conn[c].id) THEN [@ EXCEPT !.pc = "got"]
                 ELSE IdleConn]
    /\ UNCHANGED <<dataVars, pc, nops, last, notCore>>

\* the request a handler sends on opChan, and doOp(r)
doOp(cmd, id) ==
    CASE cmd = "rmnode" -> opRmNodeDo(Store, id)
      [] cmd = "rmjob" -> opRmJobDo(Store, id)
      [] cmd = "seen" -> opNodeSeenDo(Store, [newNode(id) EXCEPT !.lastSeen = 1])

\* case r := <-opChan: doOp(r), for rmNode(n), rmJob(j) and nodeSeen(d.n)
LoopOp(c) ==
    /\ pc = "run"
    /\ mg.conn[c].pc = "got"
    /\ AfterOp(doOp(mg.conn[c].cmd, mg.conn[c].id))
    /\ Step(mg.conn[c].cmd, mg.conn[c].id)
    /\ mg' = [mg EXCEPT !.conn[c] = IdleConn]
    /\ UNCHANGED <<resBuf, resLen, nops, notCore>>

\* what String() shows of the catalogs
nodesString(l) == [k \in 1..Len(l) |-> <<l[k].id, l[k].jobs>>]
jobsString(l) == [k \in 1..Len(l) |-> <<l[k].Id, l[k].nodes>>]

\* mgmtList, first half: nodes.String(), read from the variable nodes by
\* the handler (jobsThen, history: the job catalog at that moment)
MgmtListNodes(c) ==
    /\ mg.main = "serving"
    /\ mg.conn[c].pc = "idle"
    /\ nops < MaxCmds
    /\ mg' = [mg EXCEPT !.conn[c] = [IdleConn EXCEPT !.pc = "list", !.cmd = "list",
                                        !.late = (pc # "run"),
                                        !.out = [nodes |-> nodesString(nodes), jobs |-> <<>>,
                                                 jobsThen |-> jobsString(jobs)]],
                        !.readers = @ \cup {"mgmtList"}]
    /\ nops' = nops + 1
    /\ UNCHANGED <<dataVars, pc, last, notCore>>

\* mgmtList, second half: jobs.String(), read from the variable jobs
MgmtListJobs(c) ==
    /\ mg.conn[c].pc = "list"
    /\ mg' = [mg EXCEPT !.conn[c].pc = "idle", !.conn[c].out.jobs = jobsString(jobs)]
    /\ UNCHANGED <<dataVars, pc, nops, last, notCore>>

\* main: a signal arrives on killme; dying = true, and the deferred
\* functions up to killData <- true: the listeners are closed
Signal ==
    /\ mg.main = "serving"
    /\ mg' = [mg EXCEPT !.main = "dying"]
    /\ UNCHANGED <<dataVars, pc, nops, last, notCore>>

\* case <-headShot: return
KillCase ==
    /\ pc = "run"
    /\ mg.main = "dying"
    /\ pc' = "wait"
    /\ UNCHANGED <<dataVars, nops, last, notCore, mg>>

\* main's deferred <-dataDone meets the loop's deferred done <- true
MainExit ==
    /\ mg.main = "dying"
    /\ pc = "closed"
    /\ pc' = "done"
    /\ mg' = [mg EXCEPT !.main = "exited"]
    /\ UNCHANGED <<dataVars, nops, last, notCore>>

\* the server after start-up: nodes 1 and 2, jobs 0 and 1, job 0 on node 1
InitMgmt ==
    /\ LET st == loadRunning([nodes |-> loadNodes(MgmtNodeIds),
                              jobs |-> loadJobs(MgmtJobIds, [x \in MgmtJobIds |-> <<1, 1>>]),
                              dbuf |-> <<>>, dlen |-> 0, ok |-> TRUE], MgmtRows)
       IN  nodes = st.nodes /\ jobs = st.jobs
    /\ SrvRest
    /\ mg = [main |-> "serving", conn |-> [c \in Conns |-> IdleConn], readers |-> {}]
    /\ ExtOffExcept("mgmt")

NextMgmt ==
    \/ \E c \in Conns, cmd \in Cmds, id \in NodeIds \cup JobIds : MgmtAccept(c, cmd, id)
    \/ \E c \in Conns : LoopGet(c)
    \/ \E c \in Conns : LoopOp(c)
    \/ \E c \in Conns : MgmtListNodes(c)
    \/ \E c \in Conns : MgmtListJobs(c)
    \/ Signal
    \/ KillCase
    \/ DeferCommit
    \/ \E i \in 1..chanCap : TaskDone(i)
    \/ DeferClose
    \/ MainExit

SpecMgmt == InitMgmt /\ [][NextMgmt]_vars

\* C25: an operation for an id that is not in the catalog when the loop
\* takes it (RmNode, RmJob, NodeSeen, whoever removed the id in between)
\* leaves the catalogs, the diff log and the results as they were, and the
\* loop goes on
C25_UnknownIdIsNoOp ==
    [][\A c \in Conns :
          (mg.conn[c].pc = "got" /\ mg'.conn[c].pc = "idle" /\
           ~known(mg.conn[c].cmd, mg.conn[c].id)) =>
              /\ nodes' = nodes /\ jobs' = jobs
              /\ SubSeq(diffBuf', 1, diffLen') = Diffs0
              /\ SubSeq(resBuf', 1, resLen') = Results0
              /\ pc' = "run" /\ ~panicked']_vars

\* C26: once the loop has ended after a panic (final commit done, DB
\* closed) main is at its exit, receiving from dataDone, and no connection
\* that was accepted since the panic waits for an answer of the loop
C26_PanicShutsDown ==
    (panicked /\ pc = "closed") =>
        /\ ENABLED MainExit
        /\ \A c \in Conns : ~(mg.conn[c].late /\ mg.conn[c].pc = "asked")

\* C28: no task but the data loop reads the variables nodes and jobs, and
\* what a list command shows of the jobs is what they were when it showed
\* the nodes
C28_LoopOwnsData ==
    /\ mg.readers = {}
    /\ \A c \in Conns : (mg.conn[c].cmd = "list" /\ mg.conn[c].pc = "idle") =>
           mg.conn[c].out.jobs = mg.conn[c].out.jobsThen

\* ================================================= node shutdown (SpecShut)
\* main and netLoop are goroutines that share the variable jobs.  A job
\* list is an array of sh.arr; sh.jobs names the array the variable jobs
\* refers to, sh.tasks holds the ids of the scheduler tasks that run.
\* killJobs is followed entry by entry in the goroutine that runs it: the
\* read of the entry ("kread"), the start of the stopping goroutine with
\* the write of nil ("kmark"), and the loop that waits for them ("kjoin").
\* The two goroutines race on jobs: every order of these steps can happen.
Procs == {"main", "net"}
notShut == <<srvVars, schedX, sessX, timerX, mergeX, dbX, mg, ky, pdb, ov, nr>>
KillStart(rng) == [pc |-> "kread", i |-> 0, rng |-> rng, v |-> 0, k |-> 0]
alive == ~sh.crashed

\* for i, v := range jobs { if v.s == nil { continue } ...: the range is
\* over the slice the variable held when the loop began
KillRead(p) ==
    /\ alive
    /\ sh[p].pc = "kread"
    /\ LET a == sh.arr[sh[p].rng]  i == sh[p].i IN
       sh' = IF i >= Len(a) THEN [sh EXCEPT ![p].pc = "kjoin"]
             ELSE IF a[i + 1].s = 0 THEN [sh EXCEPT ![p].i = i + 1]
             ELSE [sh EXCEPT ![p].pc = "kmark", ![p].v = a[i + 1].s]
    /\ UNCHANGED notShut

\* go func(s) { s.Stop(); c <- true }(v.s); jobs[i].s = nil; k++
\* (jobs[i] is an element of the slice the variable holds now)
KillMark(p) ==
    /\ alive
    /\ sh[p].pc = "kmark"
    /\ LET i == sh[p].i  t == sh[p].v IN
       sh' = IF i >= Len(sh.arr[sh.jobs])
             THEN [sh EXCEPT !.crashed = TRUE,
                             !.stoppers = @ \cup {[by |-> p, t |-> t, st |-> "stop"]},
                             !.stops[t] = @ + 1]
             ELSE [sh EXCEPT !.stoppers = @ \cup {[by |-> p, t |-> t, st |-> "stop"]},
                             !.stops[t] = @ + 1,
                             !.arr[sh.jobs][i + 1].s = 0,
                             ![p].pc = "kread", ![p].i = i + 1, ![p].k = @ + 1]
    /\ UNCHANGED notShut

\* Sched.Stop: s.headShot <- true, received by the task's thread, which
\* returns; a task that has returned receives nothing
StopReturns(x) ==
    /\ alive
    /\ x \in sh.stoppers /\ x.st = "stop"
    /\ x.t \in sh.tasks
    /\ sh' = [sh EXCEPT !.tasks = @ \ {x.t},
                        !.stoppers = (@ \ {x}) \cup {[x EXCEPT !.st = "done"]}]
    /\ UNCHANGED notShut

\* for k > 0 { <-c; k-- }, then what follows killJobs: in main <-netDone,
\* in mergeJobs jobs = newjobs
KillJoin(p) ==
    /\ alive
    /\ sh[p].pc = "kjoin"
    /\ IF sh[p].k = 0
       THEN sh' = [sh EXCEPT ![p].pc = IF p = "main" THEN "waitnet" ELSE "assign"]
       ELSE \E x \in sh.stoppers :
               /\ x.by = p /\ x.st = "done"
               /\ sh' = [sh EXCEPT !.stoppers = @ \ {x}, ![p].k = @ - 1]
    /\ UNCHANGED notShut

\* talk() up to recvJobs, and mergeJobs up to its call of killJobs: the
\* two loops and replaceJobs; the kept entries are the slice newjobs
NetMerge(new, dbErr) ==
    /\ alive
    /\ sh.net.pc = "talk"
    /\ sh.merges < MaxShutMerges
    /\ \E m \in {mergeLoop(sh.arr[sh.jobs], new, [k \in 1..Len(new) |-> FALSE], 0, 0, FALSE)} :
          sh' = IF ~m.ok THEN [sh EXCEPT !.crashed = TRUE]
                ELSE IF m.updated /\ dbErr
                THEN [sh EXCEPT !.arr[sh.jobs] = m.jobs, !.net.pc = "select",
                                !.merges = @ + 1]
                ELSE [sh EXCEPT !.arr[sh.jobs] = m.jobs,
                                !.arr[3 - sh.jobs] = dropFalse(m.newjobs, m.status, 1, 0),
                                !.net = KillStart(sh.jobs), !.merges = @ + 1]
    /\ UNCHANGED notShut

\* talk() fails before recvJobs
NetTalkFails ==
    /\ alive
    /\ sh.net.pc = "talk"
    /\ sh' = [sh EXCEPT !.net.pc = "select"]
    /\ UNCHANGED notShut

\* jobs = newjobs
NetAssign ==
    /\ alive
    /\ sh.net.pc = "assign"
    /\ sh' = [sh EXCEPT !.jobs = 3 - sh.jobs, !.net.pc = "start", !.net.i = 0,
                        !.net.rng = 3 - sh.jobs]
    /\ UNCHANGED notShut

\* startJobs: for i := range jobs { if jobs[i].s == nil { scheduleJob } },
\* then the rest of talk()
NetStart ==
    /\ alive
    /\ sh.net.pc = "start"
    /\ LET a == sh.arr[sh.jobs]  i == sh.net.i IN
       sh' = IF i >= Len(sh.arr[sh.net.rng]) THEN [sh EXCEPT !.net.pc = "select"]
             ELSE IF i >= Len(a) THEN [sh EXCEPT !.crashed = TRUE]
             ELSE IF a[i + 1].s # 0 THEN [sh EXCEPT !.net.i = i + 1]
             ELSE [sh EXCEPT !.arr[sh.jobs][i + 1].s = sh.next,
                             !.tasks = @ \cup {sh.next},
                             !.stops = [t \in DOMAIN @ \cup {sh.next} |->
                                           IF t = sh.next THEN 0 ELSE @[t]],
                             !.next = @ + 1, !.net.i = i + 1]
    /\ UNCHANGED notShut

\* case <-time.After(dur): the next talk()
NetAgain ==
    /\ alive
    /\ sh.net.pc = "select"
    /\ sh.merges < MaxShutMerges
    /\ sh' = [sh EXCEPT !.net.pc = "talk"]
    /\ UNCHANGED notShut

\* main: a signal on killme; the deferred function starts the goroutine
\* that sends killNet and calls killJobs
ShutSignal ==
    /\ alive
    /\ sh.main.pc = "running"
    /\ sh' = [sh EXCEPT !.main = KillStart(sh.jobs)]
    /\ UNCHANGED notShut

\* case <-headShot in netLoop, from the goroutine main started
NetHeadshot ==
    /\ alive
    /\ sh.net.pc = "select"
    /\ sh.main.pc \notin {"running", "exited"}
    /\ sh' = [sh EXCEPT !.net.pc = "done"]
    /\ UNCHANGED notShut

\* <-netDone: the deferred function returns, main returns
ShutReturns ==
    /\ alive
    /\ sh.main.pc = "waitnet"
    /\ sh.net.pc = "done"
    /\ sh' = [sh EXCEPT !.main.pc = "exited"]
    /\ UNCHANGED notShut

\* the node after loadJobs: jobs 0 and 1 with their tasks 1 and 2; netLoop
\* has just been started and is in its first talk()
InitShut ==
    /\ nodes = <<>> /\ jobs = <<>>
    /\ SrvRest
    /\ sh = [arr |-> <<[k \in 1..2 |-> [Id |-> k - 1, desc |-> 1, s |-> k]], <<>>>>,
             jobs |-> 1, tasks |-> {1, 2}, next |-> 3,
             stops |-> [t \in {1, 2} |-> 0], stoppers |-> {},
             main |-> [pc |-> "running", i |-> 0, rng |-> 1, v |-> 0, k |-> 0],
             net |-> [pc |-> "talk", i |-> 0, rng |-> 1, v |-> 0, k |-> 0],
             merges |-> 0, crashed |-> FALSE]
    /\ ExtOffExcept("shut")

NextShut ==
    \/ \E p \in Procs : KillRead(p)
    \/ \E p \in Procs : KillMark(p)
    \/ \E x \in [by : Procs, t : 1..(2 + 3 * MaxShutMerges), st : {"stop"}] : StopReturns(x)
    \/ \E p \in Procs : KillJoin(p)
    \/ \E new \in NewLists, dbErr \in BOOLEAN : NetMerge(new, dbErr)
    \/ NetTalkFails
    \/ NetAssign
    \/ NetStart
    \/ NetAgain
    \/ ShutSignal
    \/ NetHeadshot
    \/ ShutReturns

SpecShut == InitShut /\ [][NextShut]_vars

\* C27: when main's shutdown has returned no job task runs and netLoop
\* has ended, so none is started afterwards; Stop is called at most once
\* on a task; a shutdown that has begun and not returned can take a step
C27_ShutdownJoinsTasks ==
    /\ sh.main.pc = "exited" => (sh.tasks = {} /\ sh.net.pc = "done")
    /\ \A t \in DOMAIN sh.stops : sh.stops[t] <= 1
    /\ (alive /\ sh.main.pc \in {"kread", "kmark", "kjoin", "waitnet"}) => ENABLED NextShut

\* ===================================== requestSchedule, requestCommit (SpecReq)
\* `if len(ch) == 0 { ch <- true }` is two steps: the test of len(ch) and
\* the send.  The callers are the connection handlers (mgmtSched,
\* mgmtCommit, handle) and the data loop itself; the loop's pc is "sendS"
\* or "sendC" between its test and its send.
ReqChans == {"sched", "commit"}
lenOf(ch) == IF ch = "sched" THEN schedReq ELSE commitReq
\* ch <- true can proceed: the channel's buffer has room
canSend(ch) == lenOf(ch) < chanCap
notReq == <<nodes, jobs, diffBuf, diffLen, resBuf, resLen, panicked, committing,
            commitDone, tasks, sess, nsess, last, linkBase, missed,
            schedX, sessX, timerX, mergeX, dbX, sh, ky, pdb, ov, nr>>

\* a handler in requestSchedule or requestCommit: if len(ch) == 0
ConnCheck(c, ch) ==
    /\ mg.conn[c].pc = "idle"
    /\ nops < MaxCmds
    /\ nops' = nops + 1
    /\ mg' = IF lenOf(ch) = 0
             THEN [mg EXCEPT !.conn[c] = [IdleConn EXCEPT !.pc = "saw", !.cmd = ch]]
             ELSE mg
    /\ UNCHANGED <<pc, schedReq, commitReq, notReq>>

\* the handler's ch <- true
ConnSend(c) ==
    /\ mg.conn[c].pc = "saw"
    /\ canSend(mg.conn[c].cmd)
    /\ schedReq' = IF mg.conn[c].cmd = "sched" THEN schedReq + 1 ELSE schedReq
    /\ commitReq' = IF mg.conn[c].cmd = "commit" THEN commitReq + 1 ELSE commitReq
    /\ mg' = [mg EXCEPT !.conn[c] = IdleConn]
    /\ UNCHANGED <<pc, nops, notReq>>

\* case <-t.C: requestSchedule(), up to the test
TickCheck ==
    /\ pc = "run"
    /\ pc' = IF schedReq = 0 THEN "sendS" ELSE "run"
    /\ UNCHANGED <<schedReq, commitReq, nops, mg, notReq>>

\* case <-schedReqChan: schedule(); requestCommit(), up to the test
SchedCheck(p) ==
    /\ pc = "run"
    /\ schedReq > 0
    /\ p \in Perms(Len(nodes))
    /\ schedReq' = schedReq - 1
    /\ \E s1 \in {schedule(Store, p)} :
          /\ nodes' = s1.nodes /\ jobs' = s1.jobs
          /\ diffBuf' = Visible(s1.dbuf, s1.dlen, tasks, "d")
          /\ diffLen' = s1.dlen
          /\ panicked' = (panicked \/ ~s1.ok)
          /\ pc' = IF ~s1.ok THEN "wait" ELSE IF commitReq = 0 THEN "sendC" ELSE "run"
    /\ UNCHANGED <<resBuf, resLen, committing, commitReq, commitDone, tasks, sess, nops,
                   nsess, last, linkBase, missed, ext>>

\* the loop's own schedReqChan <- true, commitReqChan <- true
LoopSend ==
    /\ pc \in {"sendS", "sendC"}
    /\ canSend(IF pc = "sendS" THEN "sched" ELSE "commit")
    /\ schedReq' = IF pc = "sendS" THEN schedReq + 1 ELSE schedReq
    /\ commitReq' = IF pc = "sendC" THEN commitReq + 1 ELSE commitReq
    /\ pc' = "run"
    /\ UNCHANGED <<nops, mg, notReq>>

\* the loop at its start, schedReqChan <- true done; the catalog of InitMgmt
InitReq ==
    /\ LET st == loadRunning([nodes |-> loadNodes(MgmtNodeIds),
                              jobs |-> loadJobs(MgmtJobIds, [x \in MgmtJobIds |-> <<1, 1>>]),
                              dbuf |-> <<>>, dlen |-> 0, ok |-> TRUE], MgmtRows)
       IN  nodes = st.nodes /\ jobs = st.jobs
    /\ diffBuf = <<>> /\ diffLen = 0
    /\ resBuf = <<>> /\ resLen = 0
    /\ panicked = FALSE
    /\ pc = "run"
    /\ committing = FALSE
    /\ schedReq = 1
    /\ commitReq = 0
    /\ commitDone = <<>>
    /\ tasks = <<>>
    /\ sess = [pc |-> "idle", n |-> <<>>, r |-> <<>>]
    /\ nops = 0
    /\ nsess = 0
    /\ last = [op |-> "init", id |-> 0, dlen |-> 0]
    /\ linkBase = {}
    /\ missed = FALSE
    /\ mg = [main |-> "serving", conn |-> [c \in Conns |-> IdleConn], readers |-> {}]
    /\ ExtOffExcept("mgmt")

NextReq ==
    \/ \E c \in Conns, ch \in ReqChans : ConnCheck(c, ch)
    \/ \E c \in Conns : ConnSend(c)
    \/ TickCheck
    \/ \E p \in AllPerms : SchedCheck(p)
    \/ LoopSend
    \/ CommitReqCase
    \/ CommitDoneCase
    \/ \E i \in 1..chanCap : TaskDone(i)

SpecReq == InitReq /\ [][NextReq]_vars

\* C29: at most one request is pending on each channel, and whoever has
\* passed the test of requestSchedule or requestCommit, a handler or the
\* loop itself, finds room for its send
C29_RequestsNeverBlock ==
    /\ schedReq <= 1 /\ commitReq <= 1
    /\ \A c \in Conns : mg.conn[c].pc = "saw" => canSend(mg.conn[c].cmd)
    /\ pc = "sendS" => canSend("sched")
    /\ pc = "sendC" => canSend("commit")

\* ============================================== sorted catalogs (Spec)
\* C30: after every operation and every scheduler run the node catalog and
\* the job catalog are strictly increasing by id, and so is every node's
\* jobs list: sorted, no duplicates
C30_CatalogsSorted ==
    /\ \A a, b \in 1..Len(nodes) : a < b => nodes[a].id < nodes[b].id
    /\ \A a, b \in 1..Len(jobs) : a < b => jobs[a].Id < jobs[b].Id
    /\ \A x \in 1..Len(nodes) :
          \A a, b \in 1..Len(nodes[x].jobs) : a < b => nodes[x].jobs[a] < nodes[x].jobs[b]

\* a job was removed and added again in front of the others, while some
\* node carries two jobs placed by the scheduler
C30_Witness ==
    /\ last.op = "addjob" /\ nops = MaxOps
    /\ Len(jobs) = MaxJobId + 1 /\ jobs[1].Id = last.id
    /\ \E x \in 1..Len(nodes) : Len(nodes[x].jobs) >= 2
    /\ ~panicked

\* ======================================== unknown node id (SpecSess)
\* C31: when the id of the auth message is not in the catalog the session
\* ends with the node-not-found error: no key is installed, the server
\* has checked and signed nothing, only the 16 bytes of ids were read, and
\* the greeting and the challenge are all the server ever sent
C31_UnknownNodeEndsSession ==
    /\ [](srv.err = "node not found" =>
             /\ srv.step \in {"err", "closed"}
             /\ ~srv.c.h.set
             /\ srv.passed = <<"sendGreet">>
             /\ srv.n = <<>> /\ srv.r = <<>>
             /\ sigs.signed["srv"] = NoEv
             /\ sigs.nchk = 0
             /\ \A k \in 1..Len(wire.toNode) : wire.toNode[k].t \in {"greet", "chal"}
             /\ nod.step \notin {"recvJobs", "sendBye", "ok"}
             /\ sess.pc = "idle")
    /\ [][(srv.step = "authClient" /\ srv'.err = "node not found") =>
             /\ nlistFind(nodes, wire.toSrv[1].v) = 0
             /\ wire'.toSrv = Drop(wire.toSrv, 1)
             /\ wire'.toNode = wire.toNode
             /\ sigs'.chk = <<>>]_vars
    /\ [][srv.err = "node not found" =>
             (wire'.toNode = wire.toNode \/ Len(wire'.toNode) < Len(wire.toNode)
              \/ wire'.tampered # wire.tampered)]_vars

\* a node that presented an id the catalog does not hold was turned away,
\* its signature and challenge still unread
C31_Witness ==
    /\ srv.step = "closed" /\ srv.err = "node not found"
    /\ ~wire.tampered /\ ~wire.cut
    /\ Len(wire.toSrv) = 2 /\ wire.toSrv[1].t = "sig"

\* ================================================= node keys (SpecKey)
\* The nodes table as the server finds it at start-up, the key of every
\* node of the catalog, and one node session as far as its first CheckSig.
\* A key is known by its length.
KeyIds == 1..MaxKeyNodes
\* a row's key column: no row, NULL, a blob of ShortKey bytes, one of KeySize
KeyCols == {"none", "null", "short", "full"}
notKey == <<srvVars, schedX, sessX, timerX, mergeX, dbX, mg, sh, pdb, ov, nr>>

\* blob.Scan: []byte is copied, nil becomes the empty blob
blobScan(col) == IF col = "null" THEN 0 ELSE IF col = "short" THEN ShortKey ELSE KeySize
\* the column written by dbInsertNode for a key of that length
keyCol(len) == IF len = KeySize THEN "full" ELSE IF len = 0 THEN "null" ELSE "short"
\* loadNodes: one node for every row, its key as scanned
keyLoad(rows) == [id \in KeyIds |-> IF rows[id] = "none" THEN <<>> ELSE <<blobScan(rows[id])>>]
IdleKeyConn == [step |-> "idle", id |-> 0, h |-> FALSE]

\* mgmtAddNode: n.key = make([]byte, 32), filled from rand.Reader when the
\* command has four arguments; with three, args[3] is out of range
KeyAddNode(id, nargs) ==
    /\ ky.nops < MaxKeyOps /\ ~ky.crashed
    /\ ky' = IF nargs = 4
             THEN [ky EXCEPT !.cat[id] = <<KeySize>>, !.diffs = @ \cup {id}, !.nops = @ + 1]
             ELSE [ky EXCEPT !.mgmtPanic = TRUE, !.nops = @ + 1]
    /\ UNCHANGED notKey

\* dbCommit: INSERT OR REPLACE INTO nodes for every opAddNode of the log
KeyCommit ==
    /\ ky.diffs # {} /\ ~ky.crashed
    /\ ky' = [ky EXCEPT !.rows = [id \in KeyIds |-> IF id \in ky.diffs
                                                    THEN keyCol(ky.cat[id][1]) ELSE @[id]],
                        !.diffs = {}]
    /\ UNCHANGED notKey

\* the server starts again: dbLoad
KeyRestart ==
    /\ ky.nops < MaxKeyOps
    /\ ky.conn.step = "idle"
    /\ ky' = [ky EXCEPT !.cat = keyLoad(ky.rows), !.diffs = {}, !.crashed = FALSE,
                        !.nops = @ + 1]
    /\ UNCHANGED notKey

\* authClient up to CheckSig: getNode, c.SetKey(d.n.key) with its error
\* dropped, c.WriteToHash
KeyAuth(id) ==
    /\ ky.conn.step = "idle" /\ ~ky.crashed
    /\ ky' = IF ky.cat[id] = <<>>
             THEN [ky EXCEPT !.conn = [step |-> "err", id |-> id, h |-> FALSE]]
             ELSE [ky EXCEPT !.conn = [step |-> "check", id |-> id,
                                       h |-> (ky.cat[id][1] = KeySize)]]
    /\ UNCHANGED notKey

\* CheckSig: c.h.Sum(csig[:0]); c.h is nil when SetKey refused the key,
\* and the panic of the handler's goroutine ends the process
KeyCheckSig(good) ==
    /\ ky.conn.step = "check" /\ ~ky.crashed
    /\ ky' = IF ~ky.conn.h
             THEN [ky EXCEPT !.crashed = TRUE, !.conn = IdleKeyConn]
             ELSE [ky EXCEPT !.conn.step = IF good THEN "authed" ELSE "err"]
    /\ UNCHANGED notKey

\* the session ends
KeyClose ==
    /\ ky.conn.step \in {"authed", "err"}
    /\ ky' = [ky EXCEPT !.conn = IdleKeyConn]
    /\ UNCHANGED notKey

\* the nodes table holds any rows; dataInit has loaded them
InitKey ==
    /\ nodes = <<>> /\ jobs = <<>>
    /\ SrvRest
    /\ \E rows \in [KeyIds -> KeyCols] :
          ky = [rows |-> rows, cat |-> keyLoad(rows), diffs |-> {}, conn |-> IdleKeyConn,
                crashed |-> FALSE, mgmtPanic |-> FALSE, nops |-> 0]
    /\ ExtOffExcept("key")

NextKey ==
    \/ \E id \in KeyIds, nargs \in {3, 4} : KeyAddNode(id, nargs)
    \/ KeyCommit
    \/ KeyRestart
    \/ \E id \in KeyIds : KeyAuth(id)
    \/ \E good \in BOOLEAN : KeyCheckSig(good)
    \/ KeyClose

SpecKey == InitKey /\ [][NextKey]_vars

CoalNodeIds == 1..3
CoalJobIds == 0..1

InitCoal ==
    /\ LET st == loadRunning([nodes |-> loadNodes({1, 2}),
                              jobs |-> loadJobs(CoalJobIds, [x \in CoalJobIds |-> <<1, 1>>]),
                              dbuf |-> <<>>, dlen |-> 0, ok |-> TRUE], <<>>)
       IN  nodes = st.nodes /\ jobs = st.jobs
    /\ SrvRest
    /\ ExtOffExcept("")

NextCoal ==
    \/ \E id \in CoalNodeIds : MgmtAddNode(id, MaxCoalOps)
    \/ \E id \in CoalNodeIds : MgmtRmNode(id, MaxCoalOps)
    \/ \E id \in CoalJobIds : MgmtAddJob(id, 1, 1, MaxCoalOps)
    \/ \E id \in CoalJobIds : MgmtRmJob(id, MaxCoalOps)
    \/ \E p \in AllPerms : Schedule(p)
    \/ Snapshot

SpecCoal == InitCoal /\ [][NextCoal]_vars

\* the id an entry of the log is about
entryId(e) ==
    IF e.op = opAddNode THEN e.n[1].id
    ELSE IF e.op = opRmNode THEN e.nodeId
    ELSE IF e.op = opAddJob THEN e.j[1].Id
    ELSE e.jobId
\* the entries of s whose op is in ops, in their order; with mine, those
\* about id, else those about the other ids
RECURSIVE entriesOf(_, _, _, _)
entriesOf(s, ops, id, mine) ==
    IF s = <<>> THEN <<>>
    ELSE (IF Head(s).op \in ops /\ ((entryId(Head(s)) = id) <=> mine)
          THEN <<Head(s)>> ELSE <<>>) \o entriesOf(Tail(s), ops, id, mine)
\* the entries of s whose op is not in ops, in their order
RECURSIVE restOf(_, _)
restOf(s, ops) ==
    IF s = <<>> THEN <<>>
    ELSE (IF Head(s).op \notin ops THEN <<Head(s)>> ELSE <<>>) \o restOf(Tail(s), ops)
NodeOps == {opAddNode, opRmNode}
JobOps == {opAddJob, opRmJob}
DiffsNext == SubSeq(diffBuf', 1, diffLen')
AddNodeStep == last'.op = "addnode" /\ nops' = nops + 1 /\ ~panicked'
RmNodeStep == last'.op = "rmnode" /\ nops' = nops + 1 /\ ~panicked'

\* C33: for the node id x of an AddNode or RmNode, the log's entries about
\* other ids stay as they are and in their order; AddNode onto an AddNode
\* of x replaces the stored copy in place, AddNode onto an RmNode of x
\* leaves one AddNode of x, RmNode onto an AddNode of x removes it and
\* appends nothing, and otherwise one entry for x is appended
C33_NodeCoalescing ==
    /\ [][AddNodeStep =>
            LET x == last'.id
                mine == entriesOf(Diffs0, NodeOps, x, TRUE)
                entry == nodeDiff(copyNode(nodes'[nlistFind(nodes', x)]))
            IN  /\ entriesOf(DiffsNext, NodeOps, x, FALSE) = entriesOf(Diffs0, NodeOps, x, FALSE)
                /\ restOf(DiffsNext, NodeOps) = restOf(Diffs0, NodeOps)
                /\ entriesOf(DiffsNext, NodeOps, x, TRUE) = <<entry>>
                /\ Len(mine) <= 1
                /\ (mine # <<>> /\ mine[1].op = opAddNode) =>
                      /\ diffLen' = diffLen
                      /\ \A k \in 1..diffLen : diffBuf'[k] # diffBuf[k] => diffBuf'[k] = entry
                /\ (mine # <<>> /\ mine[1].op = opRmNode) => diffLen' = diffLen
                /\ mine = <<>> => DiffsNext = Append(Diffs0, entry)
        ]_vars
    /\ [][RmNodeStep =>
            LET x == last'.id
                mine == entriesOf(Diffs0, NodeOps, x, TRUE)
            IN  /\ entriesOf(DiffsNext, NodeOps, x, FALSE) = entriesOf(Diffs0, NodeOps, x, FALSE)
                /\ restOf(DiffsNext, NodeOps \cup {opAddLink, opRmLink})
                      = restOf(Diffs0, NodeOps \cup {opAddLink, opRmLink})
                /\ Len(mine) <= 1
                /\ (mine # <<>> /\ mine[1].op = opAddNode) =>
                      entriesOf(DiffsNext, NodeOps, x, TRUE) = <<>>
                /\ mine = <<>> =>
                      /\ entriesOf(DiffsNext, NodeOps, x, TRUE) = <<rmNodeDiff(x)>>
                      /\ DiffsNext[diffLen'] = rmNodeDiff(x)
        ]_vars

\* an AddNode met an entry for its node among the entries of others, and
\* the log is as long as before
C33_Witness ==
    /\ last.op = "addnode" /\ ~panicked
    /\ diffLen = last.dlen /\ diffLen >= 3
    /\ \E k \in 1..(diffLen - 1) : diffBuf[k].op = opAddNode /\ diffBuf[k].n[1].id = last.id

RmJobDone == last'.op = "rmjob" /\ nops' = nops + 1 /\ ~panicked'

\* C34: RmJob(j) onto an AddJob of j.Id removes that entry and appends
\* nothing; otherwise, unless an RmJob of j.Id is logged, an RmJob of j.Id
\* is appended, whatever the log holds about other jobs
C34_JobCoalescing ==
    [][RmJobDone =>
          LET x == last'.id
              mine == entriesOf(Diffs0, JobOps, x, TRUE)
          IN  /\ entriesOf(DiffsNext, JobOps, x, FALSE) = entriesOf(Diffs0, JobOps, x, FALSE)
              /\ (mine # <<>> /\ mine[1].op = opAddJob) =>
                    entriesOf(DiffsNext, JobOps, x, TRUE) = <<>>
              /\ mine = <<>> =>
                    /\ entriesOf(DiffsNext, JobOps, x, TRUE) = <<rmJobDiff(x)>>
                    /\ DiffsNext[diffLen'] = rmJobDiff(x)
      ]_vars

\* C36: the management node command is accepted only for an id that the
\* node catalog does not hold: no AddNode is ever applied to an existing
\* node, so its record, links and used capacity and the log stay as they
\* are
C36_ExistingNodeNotReplaced ==
    [][(last'.op = "addnode" /\ nops' = nops + 1) => nlistFind(nodes, last'.id) = 0]_vars

\* C37: the node's job table changes only in the step of recvJobs whose
\* CheckSig accepted the signature over the list; a recvJobs that ends
\* with an error leaves the table as it was
C37_MergeAfterCheckSig ==
    /\ [][ndb'.jobs # ndb.jobs =>
             /\ nod.step = "recvJobs" /\ nod'.step = "sendBye"
             /\ sigs'.chk # <<>>
             /\ sigs'.chk[1].by = "nod" /\ sigs'.chk[1].ev.ok
             /\ sigs'.chk[1].ev.bytes = <<[t |-> "gob", v |-> GobEncode(ndb'.jobs)]>>]_vars
    /\ [][(nod.step = "recvJobs" /\ nod'.step = "err") => ndb'.jobs = ndb.jobs]_vars

\* a job list arrived altered, its signature check failed after the
\* results had been sent, and the job table is as before
C37_Witness ==
    /\ nod.step = "err" /\ nod.err = "signature mismatch"
    /\ ndb.delivered /\ wire.tampered
    /\ sigs.chk # <<>> /\ sigs.chk[1].by = "nod" /\ ~sigs.chk[1].ev.ok
    /\ sigs.chk[1].ev.bytes # <<>> /\ sigs.chk[1].ev.bytes[1].t = "gob"
    /\ sigs.chk[1].ev.bytes[1].v # GobBad
    /\ GobDecode(sigs.chk[1].ev.bytes[1].v) # ndb.jobs

\* ============================================= durable state (SpecDur)
\* The tables as the commits leave them.  A commit is commit() followed by
\* a dbCommit that succeeds, taken as one step: the claim is about the
\* states in which no commit is in flight.
DurNodeIds == 1..3
DurJobIds == 0..1
DurRows == <<<<0, 1>>>>

\* dbCommit: the statements of the log's entries, in their order
RECURSIVE applyDiffs(_, _)
applyDiffs(db, s) ==
    IF s = <<>> THEN db
    ELSE LET v == Head(s)
         IN  applyDiffs(
                CASE v.op = opAddLink -> [db EXCEPT !.running = @ \cup {<<v.jobId, v.nodeId>>}]
                  [] v.op = opRmLink -> [db EXCEPT !.running = @ \ {<<v.jobId, v.nodeId>>}]
                  [] v.op = opAddNode -> [db EXCEPT !.nodes = @ \cup {v.n[1].id}]
                  [] v.op = opRmNode -> [db EXCEPT !.nodes = @ \ {v.nodeId}]
                  [] v.op = opAddJob -> [db EXCEPT !.jobs = @ \cup {v.j[1].Id}]
                  [] v.op = opRmJob -> [db EXCEPT !.jobs = @ \ {v.jobId}],
                Tail(s))

\* commit() and its dbCommit
DurCommit ==
    /\ pc = "run"
    /\ ~nothingToCommit(diffLen, resLen)
    /\ pdb' = applyDiffs(pdb, Diffs0)
    /\ diffBuf' = <<>> /\ diffLen' = 0
    /\ linkBase' = JobSideLinks
    /\ Step("commit", 0)
    /\ UNCHANGED <<nodes, jobs, resBuf, resLen, panicked, pc, committing, schedReq, commitReq,
                   commitDone, tasks, sess, nops, nsess, missed,
                   schedX, sessX, timerX, mergeX, dbX, mg, sh, ky, ov, nr>>

\* nodeSeen(d.n) at the end of a session of node id
DurNodeSeen(id) ==
    /\ pc = "run" /\ nops < MaxDurOps
    /\ nlistFind(nodes, id) # 0
    /\ AfterOp(opNodeSeenDo(Store, [newNode(id) EXCEPT !.lastSeen = 1]))
    /\ nops' = nops + 1
    /\ Step("seen", id)
    /\ UNCHANGED <<resBuf, resLen, committing, schedReq, commitReq, commitDone,
                   tasks, sess, nsess, linkBase, missed, ext>>

\* the tables hold nodes 1 and 2, jobs 0 and 1 and one row of running
InitDur ==
    /\ LET st == loadRunning([nodes |-> loadNodes({1, 2}),
                              jobs |-> loadJobs(DurJobIds, [x \in DurJobIds |-> <<1, 1>>]),
                              dbuf |-> <<>>, dlen |-> 0, ok |-> TRUE], DurRows)
       IN  nodes = st.nodes /\ jobs = st.jobs
    /\ SrvRest
    /\ ExtOffExcept("dur")
    /\ pdb = [nodes |-> {1, 2}, jobs |-> DurJobIds, running |-> Range(DurRows)]

NextDur ==
    \/ \E id \in DurNodeIds : MgmtAddNode(id, MaxDurOps)
    \/ \E id \in DurNodeIds : MgmtRmNode(id, MaxDurOps)
    \/ \E id \in DurJobIds : MgmtAddJob(id, 1, 1, MaxDurOps)
    \/ \E id \in DurJobIds : MgmtRmJob(id, MaxDurOps)
    \/ \E id \in DurNodeIds : DurNodeSeen(id)
    \/ \E p \in AllPerms : Schedule(p)
    \/ DurCommit

SpecDur == InitDur /\ [][NextDur]_vars

\* C38: whenever the log is empty (and no commit is in flight) the tables
\* hold exactly the ids of the catalogs and the links of the jobs' nodes
\* lists
C38_DurableFollowsMemory ==
    (diffLen = 0 /\ ~panicked) =>
        /\ pdb.nodes = {nodes[k].id : k \in 1..Len(nodes)}
        /\ pdb.jobs = JobIdsOf(jobs)
        /\ pdb.running = JobSideLinks

\* ========================================= overlapping sessions (SpecSeen)
\* Sessions of node SeenNode, each in its own goroutine handle(): after
\* authClient ("auth", d.n is the copy getNode returned), after recvLogs
\* has stamped the copy ("stamped"), and the nodeSeen(d.n) that the data
\* loop takes from opChan.  The steps between the stamp and nodeSeen (the
\* results, the job list, the bye) take any time.
SeenNode == 1      \* the node whose sessions overlap
IdleSeen == [pc |-> "idle", t |-> 0]
notSeen == <<schedX, sessX, timerX, mergeX, dbX, mg, sh, ky, pdb, nr>>
coreSeen == <<nodes, jobs, diffBuf, diffLen, resBuf, resLen, panicked, pc, committing,
              schedReq, commitReq, commitDone, tasks, sess, nops, nsess, last, linkBase, missed>>

\* time passes on the server
SeenTick ==
    /\ ov.clock < MaxSeenClock
    /\ ov' = [ov EXCEPT !.clock = @ + 1]
    /\ UNCHANGED <<coreSeen, notSeen>>

\* authClient: d.n = getNode(id)
SeenAuth(c) ==
    /\ ov.conn[c].pc = "idle" /\ ov.n < MaxSeenSess
    /\ nlistFind(nodes, SeenNode) # 0
    /\ ov' = [ov EXCEPT !.conn[c].pc = "auth", !.n = @ + 1]
    /\ UNCHANGED <<coreSeen, notSeen>>

\* recvLogs: d.n.lastSeen = uint64(time.Now().UnixNano())
SeenStamp(c) ==
    /\ ov.conn[c].pc = "auth"
    /\ ov' = [ov EXCEPT !.conn[c] = [pc |-> "stamped", t |-> ov.clock]]
    /\ UNCHANGED <<coreSeen, notSeen>>

\* handle's nodeSeen(d.n) and the loop's doOp(opNodeSeen):
\* tmp.lastSeen = r.n.lastSeen
SeenApply(c) ==
    /\ pc = "run"
    /\ ov.conn[c].pc = "stamped"
    /\ AfterOp(opNodeSeenDo(Store, [newNode(SeenNode) EXCEPT !.lastSeen = ov.conn[c].t]))
    /\ Step("seen", SeenNode)
    /\ ov' = [ov EXCEPT !.conn[c] = IdleSeen]
    /\ UNCHANGED <<resBuf, resLen, committing, schedReq, commitReq, commitDone, tasks, sess,
                   nops, nsess, linkBase, missed, notSeen>>

InitSeen ==
    /\ LET st == loadRunning([nodes |-> loadNodes({1, 2}),
                              jobs |-> loadJobs({0}, [x \in {0} |-> <<1, 1>>]),
                              dbuf |-> <<>>, dlen |-> 0, ok |-> TRUE], <<>>)
       IN  nodes = st.nodes /\ jobs = st.jobs
    /\ SrvRest
    /\ ExtOffExcept("seen")
    /\ ov = [clock |-> 1, n |-> 0, conn |-> [c \in Conns |-> IdleSeen]]

NextSeen ==
    \/ SeenTick
    \/ \E c \in Conns : SeenAuth(c)
    \/ \E c \in Conns : SeenStamp(c)
    \/ \E c \in Conns : SeenApply(c)

SpecSeen == InitSeen /\ [][NextSeen]_vars

\* C39: no step lowers the lastSeen of a node of the catalog
C39_LastSeenMonotonic ==
    [][\A a \in 1..Len(nodes), b \in 1..Len(nodes') :
          nodes[a].id = nodes'[b].id => nodes'[b].lastSeen >= nodes[a].lastSeen]_vars

\* ================================= results from node to server (SpecRes)
\* One job of the node: the checks in progress (by start time), the rows of
\* the results table, and succeeding sessions.  sent and deleted record
\* which rows a batch has ever held and which rows deleteResults removed.
\* The clocks of node and server agree.
IdleRes == [pc |-> "idle", then |-> 0, T |-> 0, stamped |-> FALSE, loaded |-> FALSE]
notRes == <<schedX, sessX, timerX, mergeX, dbX, mg, sh, ky, pdb, ov>>

ResTick ==
    /\ nr.clock < MaxResClock /\ nr.clock + 1 < TimeWrap
    /\ nr' = [nr EXCEPT !.clock = @ + 1]
    /\ UNCHANGED <<coreSeen, notRes>>

\* check.Run: start := time.Now(); the job's timer fires once per period
ResCheckStart ==
    /\ nr.clock \notin nr.started
    /\ nr' = [nr EXCEPT !.running = @ \cup {nr.clock}, !.started = @ \cup {nr.clock}]
    /\ UNCHANGED <<coreSeen, notRes>>

\* runCheck has returned: r.Start = start.UnixNano(), insertResult(r)
ResCheckEnd(s) ==
    /\ s \in nr.running
    /\ nr' = [nr EXCEPT !.running = @ \ {s}, !.table = @ \cup {s}]
    /\ UNCHANGED <<coreSeen, notRes>>

\* the server's recvLogs writes d.n.lastSeen and signs
ResSessBegin ==
    /\ nr.sess.pc = "idle"
    /\ nr' = [nr EXCEPT !.sess = [IdleRes EXCEPT !.pc = "logs", !.then = nr.ls]]
    /\ UNCHANGED <<coreSeen, notRes>>

\* the server's recvLogs: d.n.lastSeen = time.Now(), before it reads the batch
ResStamp ==
    /\ nr.sess.pc = "logs" /\ ~nr.sess.stamped
    /\ nr' = [nr EXCEPT !.sess.stamped = TRUE, !.sess.T = nr.clock]
    /\ UNCHANGED <<coreSeen, notRes>>

\* the node's sendLogs: loadResults(then), the batch is sent,
\* deleteResults(min(then, now - 2h))
ResLoad ==
    /\ nr.sess.pc = "logs" /\ ~nr.sess.loaded
    /\ ~inFuture(nr.sess.then, nr.clock)
    /\ nr' = [nr EXCEPT !.sess.loaded = TRUE,
                        !.sent = @ \cup loadResults(nr.table, nr.sess.then),
                        !.table = deleteResults(@, deleteTill(nr.sess.then, nr.clock)),
                        !.deleted = @ \cup (nr.table \ deleteResults(nr.table,
                                                deleteTill(nr.sess.then, nr.clock)))]
    /\ UNCHANGED <<coreSeen, notRes>>

\* the session completes: handle's nodeSeen(d.n) reaches the data loop
ResSessEnd ==
    /\ nr.sess.pc = "logs" /\ nr.sess.stamped /\ nr.sess.loaded
    /\ nr' = [nr EXCEPT !.sess = IdleRes, !.ls = nr.sess.T]
    /\ UNCHANGED <<coreSeen, notRes>>

InitRes ==
    /\ nodes = loadNodes({1}) /\ jobs = <<>>
    /\ SrvRest
    /\ ExtOffExcept("res")
    /\ nr = [clock |-> TwoHours, running |-> {}, started |-> {}, table |-> {},
             sent |-> {}, deleted |-> {}, ls |-> 0, sess |-> IdleRes]

NextRes ==
    \/ ResTick
    \/ ResCheckStart
    \/ \E s \in 0..MaxResClock : ResCheckEnd(s)
    \/ ResSessBegin
    \/ ResStamp
    \/ ResLoad
    \/ ResSessEnd

SpecRes == InitRes /\ [][NextRes]_vars

\* C40: every row deleteResults removes from the node's table has been part
\* of the batch of some session
C40_NoResultLost == nr.deleted \subseteq nr.sent

====
